---- MODULE Spec2Model ----
(***************************************************************************)
(* A model of the srvrmgr session manager of siebel_prometheus_exporter    *)
(* (package servermanager): the ServerManager status machine, the command  *)
(* exchange over the child's pipes, the heartbeat checker and the          *)
(* reconnection loop, with the goroutines of the program as threads.       *)
(*                                                                         *)
(* Every section of code that runs under sm.mu is one atomic action.       *)
(* A few neighbouring sections are taken as one step: the two halves of    *)
(* startHeartbeatChecker and of handlePipeError, the reads of tryReconnect *)
(* with cleanupProcess, the kill of Disconnect with its last setStatus,    *)
(* and a failed start of the child with the setStatus that follows it.     *)
(* The child answers a command with a prompt, a data line and the line     *)
(* that ends the answer; when each line arrives is left open.              *)
(***************************************************************************)
EXTENDS Integers, Sequences, FiniteSets, TLC

(***************************************************************************)
(* Bounds of the model.                                                    *)
(***************************************************************************)
\* API calls (Connect, Disconnect, SendCommand) the caller makes in a run.
MaxOps == 2
\* Times the child process dies on its own (the injected fault).
MaxFaults == 1
\* Lines an exchange collects before its timeout is forced.
MaxOut == 2
\* Live processes that sm.cmd no longer refers to.
MaxOrphans == 1
\* Ticks of the heartbeat tickers in a run.
MaxTicks == 1
\* Failed connect attempts of one reconnection loop that are explored.
MaxAttempts == 2
\* The value of BackoffConfig.MaxRetries the claims about it are tried with.
CfgMaxRetries == 1

(***************************************************************************)
(* Program constants (durations in milliseconds).                          *)
(***************************************************************************)
DefaultReconnectDelay == 10000
BackoffInitialDelay == 5000
BackoffMaxDelay == 300000

(***************************************************************************)
(* Text.  A line is a sequence of one-character strings, so that trimming, *)
(* lower-casing and substring search are computed as the code computes     *)
(* them.                                                                   *)
(***************************************************************************)
Upper == <<"A","B","C","D","E","F","G","H","I","J","K","L","M",
           "N","O","P","Q","R","S","T","U","V","W","X","Y","Z">>
Lower == <<"a","b","c","d","e","f","g","h","i","j","k","l","m",
           "n","o","p","q","r","s","t","u","v","w","x","y","z">>

LowerChar(c) ==
  IF \E i \in 1..26 : Upper[i] = c
  THEN Lower[CHOOSE i \in 1..26 : Upper[i] = c]
  ELSE c

ToLower(s) == [i \in 1..Len(s) |-> LowerChar(s[i])]

\* strings.Contains
Contains(s, pat) ==
  \E i \in 0..(Len(s) - Len(pat)) :
    \A j \in 1..Len(pat) : s[i + j] = pat[j]

IsSpace(c) == c \in {" ", "\t"}

RECURSIVE TrimLeft(_)
TrimLeft(s) ==
  IF s # <<>> /\ IsSpace(Head(s)) THEN TrimLeft(Tail(s)) ELSE s

RECURSIVE TrimRight(_)
TrimRight(s) ==
  IF s # <<>> /\ IsSpace(s[Len(s)])
  THEN TrimRight(SubSeq(s, 1, Len(s) - 1))
  ELSE s

\* strings.TrimSpace
TrimSpace(s) == TrimRight(TrimLeft(s))

\* The failure substrings of detectConnectionError, in its order.
errorPatterns ==
  << <<"e","r","r","o","r">>,
     <<"f","a","i","l","e","d">>,
     <<"c","a","n","n","o","t"," ","c","o","n","n","e","c","t">>,
     <<"c","o","n","n","e","c","t","i","o","n"," ","r","e","f","u","s","e","d">>,
     <<"u","n","k","n","o","w","n"," ","h","o","s","t">>,
     <<"t","i","m","e","o","u","t">>,
     <<"a","u","t","h","e","n","t","i","c","a","t","i","o","n"," ","f","a","i","l","e","d">>,
     <<"a","c","c","e","s","s"," ","d","e","n","i","e","d">>,
     <<"i","n","v","a","l","i","d"," ","c","r","e","d","e","n","t","i","a","l","s">>,
     <<"s","e","r","v","e","r"," ","n","o","t"," ","f","o","u","n","d">> >>

\* A variant that forgets to lower-case the line before matching.
detectConnectionErrorCaseSensitive(errorLines) ==
  \E i \in 1..Len(errorLines) :
    \E p \in 1..Len(errorPatterns) :
      Contains(errorLines[i], errorPatterns[p])

\* detectConnectionError: some line, lower-cased, contains some pattern.
detectConnectionError(errorLines) ==
  \E i \in 1..Len(errorLines) :
    \E p \in 1..Len(errorPatterns) :
      Contains(ToLower(errorLines[i]), errorPatterns[p])

\* promptStartedPattern, the regexp srvrmgr(:.*|>), unanchored.
promptStartedPattern(line) ==
  \/ Contains(line, <<"s","r","v","r","m","g","r",":">>)
  \/ Contains(line, <<"s","r","v","r","m","g","r",">">>)

\* promptEndedPattern as a pattern that matches no line.
promptEndedNever(line) == FALSE

\* promptEndedPattern, the regexp .*\ row(|s)\ returned\. , unanchored.
promptEndedPattern(line) ==
  \/ Contains(line, <<" ","r","o","w"," ","r","e","t","u","r","n","e","d",".">>)
  \/ Contains(line, <<" ","r","o","w","s"," ","r","e","t","u","r","n","e","d",".">>)

RECURSIVE removeDuplicatesFrom(_, _)
removeDuplicatesFrom(input, result) ==
  IF input = <<>> THEN result
  ELSE removeDuplicatesFrom(
         Tail(input),
         IF \E i \in 1..Len(result) : result[i] = Head(input)
         THEN result
         ELSE Append(result, Head(input)))

\* removeDuplicates: first occurrences, in order.
removeDuplicates(input) == removeDuplicatesFrom(input, <<>>)

(***************************************************************************)
(* The lines the child process writes in this model.                       *)
(***************************************************************************)
PromptLine == <<"s","r","v","r","m","g","r",">"," ">>
DataLine == <<"S","R","V","0","1">>
RowsLine == <<"1"," ","r","o","w"," ","r","e","t","u","r","n","e","d",".">>
RefusedLine == <<"C","o","n","n","e","c","t","i","o","n"," ","R","E","F","U","S","E","D">>
NoticeLine == <<"n","o","t","i","c","e">>

\* What the child writes once started: nothing, or one line on stderr.
Startups ==
  {[out |-> <<>>, err |-> <<>>],
   [out |-> <<>>, err |-> <<RefusedLine>>],
   [out |-> <<>>, err |-> <<NoticeLine>>]}

\* What the child writes in answer to a command.
Response == <<PromptLine, DataLine, RowsLine>>

(***************************************************************************)
(* Threads.  The caller of the API is one thread; heartbeat goroutines and *)
(* reconnection goroutines (a spawned tryReconnect and the loop it starts) *)
(* run in slots.  A goroutine spawned when no slot is free is one that is  *)
(* never scheduled.                                                        *)
(***************************************************************************)
API == "api"
HB == {"h1", "h2"}
RC == {"r1", "r2"}
Threads == {API} \cup HB \cup RC

Status == {"Disconnected", "Connecting", "Disconnecting", "Connected",
           "ConnectionError", "Reconnecting"}

VARIABLES
  status,          \* sm.status
  proc,            \* the process of sm.cmd: "none" (nil, or never started), "running", "dead"
  orphans,         \* live processes that sm.cmd no longer refers to
  stdoutOutput,    \* sm.stdoutOutput
  stderrOutput,    \* sm.stderrOutput
  lastActivity,    \* sm.lastActivity against now: "recent", or "old" (over 5 minutes)
  heartbeatTicker, \* sm.heartbeatTicker: "nil", "live", "stopped"
  isReconnecting,  \* sm.isReconnecting
  AutoReconnect,   \* sm.config.AutoReconnect
  th,              \* the threads: program counter and locals
  crashed,         \* the process has panicked
  ops,             \* API calls made so far
  faults,          \* faults injected so far
  toEmit,          \* the lines the child has still to write, per stream
  delays,          \* the waits of the reconnection loop since it started (ms)
  ticks,           \* ticks of the heartbeat tickers so far
  answer,          \* the lines the child writes in answer to a command, per stream
  exporter,        \* the Exporter: its configuration, catalog, counters and gauges
  sc,              \* the scrape in progress: program counter and locals
  run,             \* one definition's scrape: the response, the rows, the samples
  mf               \* the metrics file, the stored hash and the reload in progress

vars == <<status, proc, orphans, stdoutOutput, stderrOutput,
          lastActivity, heartbeatTicker, isReconnecting, AutoReconnect, th,
          crashed, ops, faults, toEmit, delays, ticks, answer, exporter, sc, run, mf>>

\* Locals of a thread that is not running.
NoLocals(pc0) ==
  [pc |-> pc0,
   op |-> "none",          \* the call in progress, or the last one returned
   from |-> "none",        \* sm.status when the call began
   err |-> "none",         \* the error the last call returned
   again |-> FALSE,        \* the call returned repeats the call before it
   prev |-> <<>>,          \* what the SendCommand before this one returned
   out |-> <<>>,           \* output of the exchange
   skip |-> TRUE,          \* skipInitialOutput
   capStop |-> "none",     \* the stop channel the goroutine holds: "cur", "closed"
   capTick |-> "none",     \* the ticker the goroutine waits on: "cur", "stopped"
   snapAuto |-> FALSE,     \* config.AutoReconnect as copied
   dCmd |-> "none"]        \* cmd of Disconnect: "none", "cur", "old"

\* part_001 14-84: the exporter as NewExporter makes it, for a configuration
\* and a catalog of metric definitions.  A gauge holds the number of the
\* scrape that set it last (0: never set), the error gauge also its value.
NewExporter(reconnectAfterScrape, disableExtendedMetrics, metrics) ==
  [ReconnectAfterScrape |-> reconnectAfterScrape,
   DisableExtendedMetrics |-> disableExtendedMetrics,
   Metric |-> metrics,                 \* defaultMetrics.Metric
   totalScrapes |-> 0,
   scrapeErrors |-> 0,
   reconnectsTotal |-> 0,
   reconnectErrors |-> 0,
   duration |-> 0,
   error |-> [at |-> 0, v |-> 0],
   gatewayServerUp |-> 0,
   applicationServerUp |-> 0,
   lastReconnectDuration |-> 0]

\* No scrape in progress.
NoScrape ==
  [pc |-> "idle",
   status |-> "none",      \* status of checkConnection
   cur |-> "none",         \* currentStatus of checkConnection's loop
   i |-> 0,                \* i of checkConnection's loop
   k |-> 1,                \* position of scrape's loop in the catalog
   err |-> "none",         \* err of scrape
   path |-> "none",        \* what checkConnection returned: "proceed", "abort"
   calls |-> <<>>,         \* the calls made to the session and their errors, in order
   dispatched |-> <<>>,    \* the catalog positions given to scrapeGenericValues
   results |-> <<>>,       \* what each dispatched definition's scrape met
   errors0 |-> 0,          \* the scrape-error counter when the scrape began
   bg |-> 0]               \* status changes made by the session's goroutines meanwhile

\* No scrape of a definition in progress.
NoRun ==
  [pc |-> "idle",
   response |-> [err |-> "nil", lines |-> <<>>],  \* what SendCommand returned last
   override |-> TRUE,      \* !disableEmptyMetricsOverride
   k |-> 1,                \* the definition being scraped
   rows |-> <<>>,          \* siebelData
   r |-> 1,                \* the row convertRowToMetrics takes next
   startIndex |-> 1,       \* the first row of the chunk being processed
   seenMetrics |-> {},     \* seenMetrics of generatePrometheusMetrics
   metricsCount |-> 0,     \* metricsCount of generatePrometheusMetrics
   chunkMetricsCount |-> 0, \* chunkMetricsCount of processDataChunk
   ch |-> <<>>,            \* the samples sent to the channel, with their definition
   errs |-> <<>>]          \* what scrapeGenericValues returned for each definition

\* No metrics file looked at yet: metricsHashMap is empty.
NoFile ==
  [pc |-> "idle",
   content |-> "none",     \* the content of the metrics file
   stored |-> <<>>,        \* metricsHashMap[0]
   currentHash |-> <<>>,   \* currentHash of checkIfMetricsChanged
   loaded |-> "none",      \* the content the last loadMetrics decoded
   panicked |-> FALSE,     \* loadMetrics has panicked
   checks |-> 0,           \* checks made so far
   edits |-> 0]            \* changes made to the file so far

\* The thread table before any call, with the goroutine slots S in use: a
\* slot outside S never runs a goroutine.
Idle(S) ==
  [t \in Threads |->
     NoLocals(IF t = API THEN "idle" ELSE IF t \in S THEN "off" ELSE "none")]

\* The slots of a session whose heartbeat goroutines are bounded at one.
OneHeartbeat == {"h1"} \cup RC

Init ==
  /\ status = "Disconnected"
  /\ proc = "none"
  /\ orphans = 0
  /\ stdoutOutput = <<>>
  /\ stderrOutput = <<>>
  /\ lastActivity = "old"
  /\ heartbeatTicker = "nil"
  /\ isReconnecting = FALSE
  /\ AutoReconnect \in BOOLEAN
  /\ th = Idle(OneHeartbeat)
  /\ crashed = FALSE
  /\ ops = 0
  /\ faults = 0
  /\ toEmit = [out |-> <<>>, err |-> <<>>]
  /\ delays = <<>>
  /\ ticks = 0
  /\ answer = [out |-> Response, err |-> <<>>]
  /\ exporter = NewExporter(FALSE, FALSE, <<>>)
  /\ sc = NoScrape
  /\ run = NoRun
  /\ mf = NoFile

(***************************************************************************)
(* Helpers on the thread table.                                            *)
(***************************************************************************)
FreeSlots(S) == {t \in S : th[t].pc = "off"}

\* close(sm.stopReconnect); sm.stopReconnect = make(chan struct{}):
\* every goroutine holding the channel now holds a closed one.
CloseStop(T) ==
  [t \in Threads |->
     IF T[t].capStop = "cur" THEN [T[t] EXCEPT !.capStop = "closed"] ELSE T[t]]

\* sm.heartbeatTicker is stopped and given up (set to nil, or replaced):
\* the goroutines waiting on it keep the stopped ticker.
DropTicker(T) ==
  [t \in Threads |->
     IF T[t].capTick = "cur" THEN [T[t] EXCEPT !.capTick = "stopped"] ELSE T[t]]

\* sm.cmd is overwritten: a Disconnect holding the old cmd keeps it.
DropCmd(T) ==
  [t \in Threads |->
     IF T[t].dCmd = "cur" THEN [T[t] EXCEPT !.dCmd = "old"] ELSE T[t]]

\* Starts a goroutine with locals L in a free slot of S, if there is one.
Spawn(T, S, L) ==
  IF \E t \in S : T[t].pc = "off"
  THEN [T EXCEPT ![CHOOSE t \in S : T[t].pc = "off"] = L]
  ELSE T

\* The child processes that run.
LiveProcesses == orphans + (IF proc = "running" THEN 1 ELSE 0)

\* sm.reconnectWg: the two readers of a process finish when it exits.
readersDone == LiveProcesses = 0

(***************************************************************************)
(* Where a call returns to.                                                *)
(***************************************************************************)
\* connect() returns err to thread t with locals r.
AfterConnect(t, r, e) ==
  IF t = API
  THEN [NoLocals("idle") EXCEPT !.op = r.op, !.from = r.from, !.err = e]
  ELSE [NoLocals("l_ret") EXCEPT !.op = r.op, !.err = e, !.capStop = r.capStop]

\* SendCommandWithTimeout returns err e: to the caller of the API, or to
\* Disconnect, which goes on to kill unless the exit command succeeded.
AfterSend(r, e) ==
  IF r.op = "exit"
  THEN [NoLocals(IF e = "none" THEN "d_wait" ELSE "d_kill") EXCEPT
          !.op = r.op, !.from = r.from, !.err = e, !.dCmd = r.dCmd]
  ELSE [NoLocals("idle") EXCEPT !.op = r.op, !.err = e, !.out = r.out,
                                !.prev = r.prev]

\* command.go 68-70: the errors SendCommandWithTimeout takes for a closed
\* pipe, a timeout among them.
isPipeErrorOrTimeout(e) == e \in {"write", "timeout"}

\* command.go 68-70: the errors SendCommandWithTimeout takes for a closed
\* pipe.
isPipeError(e) == e = "write"

\* sendCommandWithContext returns err e: to checkConnectionHealth in a
\* heartbeat goroutine (an error is an unhealthy connection, and the
\* goroutine calls tryReconnect), else to SendCommandWithTimeout, which
\* looks at pipe errors before it returns.
AfterExchange(t, r, e) ==
  IF t \in HB
  THEN [NoLocals(IF e = "none" THEN "hb_enter" ELSE "tr1") EXCEPT
          !.op = "heartbeat", !.err = e]
  ELSE IF isPipeError(e)
       THEN [NoLocals("sc_ret") EXCEPT !.op = r.op, !.from = r.from,
                                       !.dCmd = r.dCmd, !.prev = r.prev]
       ELSE AfterSend(r, e)

\* tryReconnect returns without having started a loop.
AfterTryReconnect(t, r) ==
  IF t \in HB
  THEN [NoLocals("hb_enter") EXCEPT !.op = "heartbeat", !.err = "skipped"]
  ELSE NoLocals("off")

\* A spawned tryReconnect goroutine.
PendingReconnect == [NoLocals("tr1") EXCEPT !.op = "tryReconnect"]

(***************************************************************************)
(* connect()                                                               *)
(***************************************************************************)
\* connect.go 55: the statuses in which connect refuses.
AlreadyConnecting(s) == s \in {"Connecting", "Connected"}

\* connect.go 54-64, as Connect() of the caller or as an attempt of the loop.
connectEntry(t, r) ==
  IF AlreadyConnecting(status)
  THEN /\ th' = [th EXCEPT ![t] = AfterConnect(t, r, "already")]
       /\ status' = status
  ELSE /\ th' = [th EXCEPT ![t] = [r EXCEPT !.pc = "c2", !.snapAuto = AutoReconnect]]
       /\ status' = "Connecting"

Connect ==
  /\ ~crashed
  /\ th[API].pc = "idle"
  /\ ops < MaxOps
  /\ ops' = ops + 1
  /\ connectEntry(API, [NoLocals("idle") EXCEPT !.op = "Connect", !.from = status])
  /\ UNCHANGED <<proc, orphans, stdoutOutput, stderrOutput, lastActivity,
                 heartbeatTicker, isReconnecting, AutoReconnect, crashed, faults, toEmit, delays, ticks, answer, exporter, sc, run, mf>>

\* reconnect.go 122-129: the loop's select finds the stop channel open.
loopConnect(t) ==
  /\ ~crashed
  /\ t \in RC
  /\ th[t].pc = "l0"
  /\ th[t].capStop # "closed"
  /\ Len(delays) < MaxAttempts
  /\ connectEntry(t, [th[t] EXCEPT !.from = status])
  /\ UNCHANGED <<proc, orphans, stdoutOutput, stderrOutput, lastActivity,
                 heartbeatTicker, isReconnecting, AutoReconnect, crashed, ops, faults, toEmit, delays, ticks, answer, exporter, sc, run, mf>>

\* connect.go 81-144: a new exec.Cmd replaces sm.cmd, the pipes are made
\* and the process is started; o is what the operating system does.  A
\* failure ends in setStatus(ConnectionError) and the error return
\* (connect.go 87-122).
connectSpawn(t, o, startup) ==
  /\ ~crashed
  /\ th[t].pc = "c2"
  /\ proc = "running" => orphans < MaxOrphans
  /\ orphans' = IF proc = "running" THEN orphans + 1 ELSE orphans
  /\ proc' = IF o = "ok" THEN "running" ELSE "none"
  /\ o # "ok" => startup = [out |-> <<>>, err |-> <<>>]
  /\ toEmit' = IF o = "ok" THEN startup ELSE toEmit
  /\ stdoutOutput' = IF o = "pipe" THEN stdoutOutput ELSE <<>>
  /\ stderrOutput' = IF o = "pipe" THEN stderrOutput ELSE <<>>
  /\ status' = IF o = "ok" THEN status ELSE "ConnectionError"
  /\ th' = [DropCmd(th) EXCEPT ![t] =
              IF o = "ok" THEN [th[t] EXCEPT !.pc = "c3"]
              ELSE AfterConnect(t, th[t], "spawn")]
  /\ UNCHANGED <<lastActivity, heartbeatTicker, isReconnecting, AutoReconnect,
                 crashed, ops, faults, delays, ticks, answer, exporter, sc, run, mf>>

\* connect.go 148-183: after the settle window, the stderr lines decide.
connectInspect(t) ==
  /\ ~crashed
  /\ th[t].pc = "c3"
  /\ IF Len(stderrOutput) > 0 /\ detectConnectionError(stderrOutput)
     THEN /\ status' = "ConnectionError"
          /\ lastActivity' = lastActivity
          /\ th' = [th EXCEPT ![t] = AfterConnect(t, th[t], "stderr")]
     ELSE /\ status' = "Connected"
          /\ lastActivity' = "recent"
          /\ th' = [th EXCEPT ![t] =
                      IF th[t].snapAuto
                      THEN [th[t] EXCEPT !.pc = "c4", !.from = "none", !.snapAuto = FALSE]
                      ELSE AfterConnect(t, th[t], "none")]
  /\ UNCHANGED <<proc, orphans, stdoutOutput, stderrOutput,
                 heartbeatTicker, isReconnecting, AutoReconnect, crashed, ops, faults, toEmit, delays, ticks, answer, exporter, sc, run, mf>>

(***************************************************************************)
(* startHeartbeatChecker and the heartbeat goroutine                       *)
(***************************************************************************)
\* reconnect.go 10-43: the old ticker is stopped; with auto-reconnect on,
\* a new ticker is stored and the goroutine started.
startHeartbeatChecker(t) ==
  /\ ~crashed
  /\ th[t].pc = "c4"
  /\ IF AutoReconnect
     THEN /\ heartbeatTicker' = "live"
          /\ th' = [Spawn(DropTicker(th), HB,
                          [NoLocals("hb_enter") EXCEPT !.op = "heartbeat"])
                      EXCEPT ![t] = AfterConnect(t, th[t], "none")]
     ELSE /\ heartbeatTicker' =
               IF heartbeatTicker = "live" THEN "stopped" ELSE heartbeatTicker
          /\ th' = [th EXCEPT ![t] = AfterConnect(t, th[t], "none")]
  /\ UNCHANGED <<status, proc, orphans, stdoutOutput, stderrOutput, lastActivity,
                 isReconnecting, AutoReconnect, crashed, ops, faults, toEmit, delays, ticks, answer, exporter, sc, run, mf>>

\* reconnect.go 28-35: the select evaluates sm.heartbeatTicker.C and
\* sm.stopReconnect; a nil ticker is a nil pointer dereference.
heartbeatSelect(t) ==
  /\ t \in HB
  /\ ~crashed
  /\ th[t].pc = "hb_enter"
  /\ IF heartbeatTicker = "nil"
     THEN /\ crashed' = TRUE
          /\ th' = th
     ELSE /\ crashed' = crashed
          /\ th' = [th EXCEPT ![t].pc = "hb_select",
                              ![t].err = "none",
                              ![t].capTick = "cur",
                              ![t].capStop = "cur"]
  /\ UNCHANGED <<status, proc, orphans, stdoutOutput, stderrOutput, lastActivity,
                 heartbeatTicker, isReconnecting, AutoReconnect, ops, faults, toEmit, delays, ticks, answer, exporter, sc, run, mf>>

\* reconnect.go 35-40: the stop channel the goroutine holds is closed.
heartbeatStop(t) ==
  /\ t \in HB
  /\ ~crashed
  /\ th[t].pc = "hb_select"
  /\ th[t].capStop = "closed"
  /\ heartbeatTicker' = IF heartbeatTicker = "live" THEN "stopped" ELSE heartbeatTicker
  /\ th' = [th EXCEPT ![t] = NoLocals("off")]
  /\ UNCHANGED <<status, proc, orphans, stdoutOutput, stderrOutput, lastActivity,
                 isReconnecting, AutoReconnect, crashed, ops, faults, toEmit, delays, ticks, answer, exporter, sc, run, mf>>

\* The ticker the goroutine waits on can fire.
TickerFires(r) == r.capTick = "cur" /\ heartbeatTicker = "live"

\* The health check that probes on every tick.
checkConnectionHealthProbesAlways(s, activity) ==
  IF s # "Connected" THEN "tr1" ELSE "s1"

\* reconnect.go 47-82: where the heartbeat goroutine goes on a tick: to
\* tryReconnect when the status is not Connected, to the probe command after
\* more than 5 minutes without activity, back to the select otherwise.
checkConnectionHealth(s, activity) ==
  IF s # "Connected" THEN "tr1"
  ELSE IF activity = "old" THEN "s1"
  ELSE "hb_enter"

\* reconnect.go 29-34 with checkConnectionHealth 47-60: a tick; the probe is
\* sent only after more than 5 minutes without activity.
heartbeatTick(t) ==
  /\ t \in HB
  /\ ~crashed
  /\ th[t].pc = "hb_select"
  /\ TickerFires(th[t])
  /\ ticks < MaxTicks
  /\ ticks' = ticks + 1
  /\ th' = [th EXCEPT ![t] =
              LET next == checkConnectionHealth(status, lastActivity)
              IN [NoLocals(next) EXCEPT
                    !.op = IF next = "s1" THEN "list ent" ELSE "heartbeat"]]
  /\ UNCHANGED <<status, proc, orphans, stdoutOutput, stderrOutput, lastActivity,
                 heartbeatTicker, isReconnecting, AutoReconnect, crashed, ops, faults, toEmit, delays, answer, exporter, sc, run, mf>>

(***************************************************************************)
(* SendCommandWithTimeout and sendCommandWithContext                       *)
(***************************************************************************)
\* The status check of SendCommandWithTimeout, let through too often.
sendAdmitsLoose(s) == s \in {"Connected", "Disconnecting"}

\* command.go 25: the status in which a command is let through at once.
sendAdmits(s) == s = "Connected"

\* command.go 25-47: the status check on entry, on locals r.
sendEntry(r) ==
  IF sendAdmits(status) THEN [r EXCEPT !.pc = "s1"]
  ELSE IF status = "Reconnecting" THEN [r EXCEPT !.pc = "sc_grace"]
  ELSE AfterSend(r, "notconnected")

SendCommand ==
  /\ ~crashed
  /\ th[API].pc = "idle"
  /\ ops < MaxOps
  /\ ops' = ops + 1
  /\ th' = [th EXCEPT ![API] =
              sendEntry([NoLocals("idle") EXCEPT
                           !.op = "SendCommand", !.from = status,
                           !.prev = IF th[API].op = "SendCommand"
                                    THEN <<th[API].err, th[API].out>>
                                    ELSE <<>>])]
  /\ UNCHANGED <<status, proc, orphans, stdoutOutput, stderrOutput, lastActivity,
                 heartbeatTicker, isReconnecting, AutoReconnect, crashed, faults, toEmit, delays, ticks, answer, exporter, sc, run, mf>>

\* command.go 32-41: after the 500 ms grace interval the status is read
\* once more.
sendGrace(t) ==
  /\ ~crashed
  /\ th[t].pc = "sc_grace"
  /\ th' = [th EXCEPT ![t] =
              IF status = "Connected"
              THEN [th[t] EXCEPT !.pc = "s1"]
              ELSE AfterSend(th[t], "reconnecting")]
  /\ UNCHANGED <<status, proc, orphans, stdoutOutput, stderrOutput, lastActivity,
                 heartbeatTicker, isReconnecting, AutoReconnect, crashed, ops, faults, toEmit, delays, ticks, answer, exporter, sc, run, mf>>

\* command.go 120-137: the status check under the lock; the queues are
\* cleared.
exchangeBegin(t) ==
  /\ ~crashed
  /\ th[t].pc = "s1"
  /\ IF status # "Connected"
     THEN /\ th' = [th EXCEPT ![t] = AfterExchange(t, th[t], "notconnected")]
          /\ UNCHANGED <<lastActivity, stdoutOutput, stderrOutput>>
     ELSE /\ th' = [th EXCEPT ![t].pc = "s2"]
          /\ lastActivity' = "recent"
          /\ stdoutOutput' = <<>>
          /\ stderrOutput' = <<>>
  /\ UNCHANGED <<status, proc, orphans,
                 heartbeatTicker, isReconnecting, AutoReconnect, crashed, ops, faults, toEmit, delays, ticks, answer, exporter, sc, run, mf>>

\* command.go 140-160: the command is written and flushed; the write fails
\* when the child is not running.
exchangeWrite(t) ==
  /\ ~crashed
  /\ th[t].pc = "s2"
  /\ IF proc = "running"
     THEN /\ toEmit' = [out |-> toEmit.out \o answer.out,
                         err |-> toEmit.err \o answer.err]
          /\ th' = [th EXCEPT ![t].pc = "poll", ![t].out = <<>>, ![t].skip = TRUE]
     ELSE /\ toEmit' = toEmit
          /\ th' = [th EXCEPT ![t].pc = "hp"]
  /\ UNCHANGED <<status, proc, orphans, stdoutOutput, stderrOutput, lastActivity,
                 heartbeatTicker, isReconnecting, AutoReconnect, crashed, ops, faults, delays, ticks, answer, exporter, sc, run, mf>>

\* The condition of handlePipeError, without the auto-reconnect flag.
pipeErrorReconnectsAlways(auto, s) == s = "Connected"

\* part_003 137: whether handlePipeError starts tryReconnect.
pipeErrorReconnects(auto, s) == auto /\ s = "Connected"

\* part_003 123-139: the status and the flag are read, then
\* setStatus(ConnectionError), then go sm.tryReconnect().
handlePipeError(t) ==
  /\ ~crashed
  /\ th[t].pc = "hp"
  /\ status' = "ConnectionError"
  /\ LET go == pipeErrorReconnects(AutoReconnect, status)
         T == IF go THEN Spawn(th, RC, PendingReconnect) ELSE th
     IN th' = [T EXCEPT ![t] = AfterExchange(t, th[t], "write")]
  /\ UNCHANGED <<proc, orphans, stdoutOutput, stderrOutput, lastActivity,
                 heartbeatTicker, isReconnecting, AutoReconnect, crashed, ops, faults, toEmit, delays, ticks, answer, exporter, sc, run, mf>>

\* command.go 174-181: the context's deadline passes.
exchangeTimeout(t) ==
  /\ ~crashed
  /\ th[t].pc = "poll"
  /\ th' = [th EXCEPT ![t] = AfterExchange(t, th[t], "timeout")]
  /\ UNCHANGED <<status, proc, orphans, stdoutOutput, stderrOutput, lastActivity,
                 heartbeatTicker, isReconnecting, AutoReconnect, crashed, ops, faults, toEmit, delays, ticks, answer, exporter, sc, run, mf>>

\* command.go 182-243: a poll that finds a line on stdout.
exchangePollStdout(t) ==
  /\ ~crashed
  /\ th[t].pc = "poll"
  /\ Len(stdoutOutput) > 0
  /\ stdoutOutput' = Tail(stdoutOutput)
  /\ LET line == TrimSpace(Head(stdoutOutput))
     IN IF th[t].skip
        THEN /\ th' = [th EXCEPT ![t].skip = ~promptStartedPattern(line)]
             /\ lastActivity' = lastActivity
        ELSE IF promptStartedPattern(line) \/ promptEndedPattern(line)
        THEN /\ lastActivity' = "recent"
             /\ th' = [th EXCEPT ![t] =
                         AfterExchange(t, [th[t] EXCEPT !.out = removeDuplicates(@)], "none")]
        ELSE /\ Len(th[t].out) < MaxOut
             /\ lastActivity' = lastActivity
             /\ th' = [th EXCEPT ![t].out = Append(@, line)]
  /\ UNCHANGED <<status, proc, orphans, stderrOutput,
                 heartbeatTicker, isReconnecting, AutoReconnect, crashed, ops, faults, toEmit, delays, ticks, answer, exporter, sc, run, mf>>

\* A poll that takes a line of stderr for the end of the answer.
exchangePollStderrReturns(t) ==
  /\ ~crashed
  /\ th[t].pc = "poll"
  /\ Len(stdoutOutput) = 0
  /\ Len(stderrOutput) > 0
  /\ Len(th[t].out) < MaxOut
  /\ stderrOutput' = Tail(stderrOutput)
  /\ th' = [th EXCEPT ![t] =
              AfterExchange(t, [th[t] EXCEPT !.out = Append(@, TrimSpace(Head(stderrOutput)))],
                            "none")]
  /\ UNCHANGED <<status, proc, orphans, stdoutOutput, lastActivity,
                 heartbeatTicker, isReconnecting, AutoReconnect, crashed, ops, faults, toEmit, delays, ticks, answer, exporter, sc, run, mf>>

\* command.go 245-258: a poll that finds stdout empty and a line on stderr.
exchangePollStderr(t) ==
  /\ ~crashed
  /\ th[t].pc = "poll"
  /\ Len(stdoutOutput) = 0
  /\ Len(stderrOutput) > 0
  /\ Len(th[t].out) < MaxOut
  /\ stderrOutput' = Tail(stderrOutput)
  /\ th' = [th EXCEPT ![t].out = Append(@, TrimSpace(Head(stderrOutput)))]
  /\ UNCHANGED <<status, proc, orphans, stdoutOutput, lastActivity,
                 heartbeatTicker, isReconnecting, AutoReconnect, crashed, ops, faults, toEmit, delays, ticks, answer, exporter, sc, run, mf>>

\* command.go 66-91: a pipe error starts tryReconnect when the status is
\* still Connected; the error is returned.
sendPipeError(t) ==
  /\ ~crashed
  /\ th[t].pc = "sc_ret"
  /\ LET T == IF AutoReconnect /\ status = "Connected"
              THEN Spawn(th, RC, PendingReconnect)
              ELSE th
     IN th' = [T EXCEPT ![t] = AfterSend(th[t], "write")]
  /\ UNCHANGED <<status, proc, orphans, stdoutOutput, stderrOutput, lastActivity,
                 heartbeatTicker, isReconnecting, AutoReconnect, crashed, ops, faults, toEmit, delays, ticks, answer, exporter, sc, run, mf>>

(***************************************************************************)
(* Disconnect                                                              *)
(***************************************************************************)
\* connect.go 191-203: the stop channel is closed and replaced when
\* auto-reconnect is on; the heartbeat ticker is stopped and cleared.
disconnectStops(T) ==
  LET T1 == IF AutoReconnect THEN CloseStop(T) ELSE T
  IN IF heartbeatTicker # "nil" THEN DropTicker(T1) ELSE T1

\* Disconnect on a session that is Disconnected, taking it for a live one.
disconnectedNoopKills(T, p) ==
  [T EXCEPT ![API] = [NoLocals("d_kill") EXCEPT
       !.op = "exit", !.dCmd = IF p = "none" THEN "none" ELSE "cur"]]

\* connect.go 205-209: the thread table after Disconnect on a session that
\* is already Disconnected: it returns nil.
disconnectedNoop(T, p) ==
  [T EXCEPT ![API] = [NoLocals("idle") EXCEPT
       !.op = "Disconnect", !.from = "Disconnected",
       !.again = (T[API].op = "Disconnect")]]

\* connect.go 188-214, status Disconnected.
DisconnectNoop ==
  /\ ~crashed
  /\ th[API].pc = "idle"
  /\ ops < MaxOps
  /\ status = "Disconnected"
  /\ ops' = ops + 1
  /\ heartbeatTicker' = "nil"
  /\ th' = disconnectedNoop(disconnectStops(th), proc)
  /\ UNCHANGED <<status, proc, orphans, stdoutOutput, stderrOutput, lastActivity,
                 isReconnecting, AutoReconnect, crashed, faults, toEmit, delays, ticks, answer, exporter, sc, run, mf>>

\* connect.go 188-214, any other status: Disconnecting, with cmd kept.
Disconnect ==
  /\ ~crashed
  /\ th[API].pc = "idle"
  /\ ops < MaxOps
  /\ status # "Disconnected"
  /\ ops' = ops + 1
  /\ heartbeatTicker' = "nil"
  /\ status' = "Disconnecting"
  /\ th' = [disconnectStops(th) EXCEPT ![API] =
              [NoLocals(IF proc = "none" THEN "d_kill" ELSE "d2") EXCEPT
                 !.op = "exit", !.from = status,
                 !.dCmd = IF proc = "none" THEN "none" ELSE "cur"]]
  /\ UNCHANGED <<proc, orphans, stdoutOutput, stderrOutput, lastActivity,
                 isReconnecting, AutoReconnect, crashed, faults, toEmit, delays, ticks, answer, exporter, sc, run, mf>>

\* connect.go 218-248: with a process, the exit command is tried through
\* SendCommandWithTimeout.
disconnectExit(t) ==
  /\ ~crashed
  /\ th[t].pc = "d2"
  /\ th' = [th EXCEPT ![t] = sendEntry(th[t])]
  /\ UNCHANGED <<status, proc, orphans, stdoutOutput, stderrOutput, lastActivity,
                 heartbeatTicker, isReconnecting, AutoReconnect, crashed, ops, faults, toEmit, delays, ticks, answer, exporter, sc, run, mf>>

\* A wait for the process that no timeout ends.
cmdAliveBlocking(r) == FALSE

\* The process Disconnect holds has exited; of a process that sm.cmd no
\* longer refers to the model does not know.
cmdExited(r) == r.dCmd = "old" \/ (r.dCmd = "cur" /\ proc = "dead")
cmdAlive(r) == r.dCmd = "old" \/ (r.dCmd = "cur" /\ proc = "running")

\* connect.go 232-243: the process exits within a second of the exit command.
disconnectGraceful(t) ==
  /\ ~crashed
  /\ th[t].pc = "d_wait"
  /\ cmdExited(th[t])
  /\ status' = "Disconnected"
  /\ th' = [th EXCEPT ![t] = [NoLocals("idle") EXCEPT !.op = "Disconnect"]]
  /\ UNCHANGED <<proc, orphans, stdoutOutput, stderrOutput, lastActivity,
                 heartbeatTicker, isReconnecting, AutoReconnect, crashed, ops, faults, toEmit, delays, ticks, answer, exporter, sc, run, mf>>

\* connect.go 244-246: it does not.
disconnectGraceTimeout(t) ==
  /\ ~crashed
  /\ th[t].pc = "d_wait"
  /\ cmdAlive(th[t])
  /\ th' = [th EXCEPT ![t].pc = "d_kill"]
  /\ UNCHANGED <<status, proc, orphans, stdoutOutput, stderrOutput, lastActivity,
                 heartbeatTicker, isReconnecting, AutoReconnect, crashed, ops, faults, toEmit, delays, ticks, answer, exporter, sc, run, mf>>

\* connect.go 250-308: cmd.Process.Kill(), the bounded waits for the
\* readers and the process, then setStatus(Disconnected); k says whether a
\* process that sm.cmd no longer refers to was still alive.
disconnectKill(t, k) ==
  /\ ~crashed
  /\ th[t].pc = "d_kill"
  /\ proc' = IF th[t].dCmd = "cur" /\ proc = "running" THEN "dead" ELSE proc
  /\ orphans' = IF th[t].dCmd = "old" /\ orphans > 0 /\ k THEN orphans - 1 ELSE orphans
  /\ status' = "Disconnected"
  /\ th' = [th EXCEPT ![t] = [NoLocals("idle") EXCEPT !.op = "Disconnect"]]
  /\ UNCHANGED <<stdoutOutput, stderrOutput, lastActivity,
                 heartbeatTicker, isReconnecting, AutoReconnect, crashed, ops, faults, toEmit, delays, ticks, answer, exporter, sc, run, mf>>

(***************************************************************************)
(* tryReconnect and the reconnection loop                                  *)
(***************************************************************************)
\* The single-flight check without the flag.
reconnectSkipsNoFlag(flag, auto) == ~auto

\* reconnect.go 87: tryReconnect returns at once.
reconnectSkips(flag, auto) == flag \/ ~auto

\* reconnect.go 86-98: the check and the claim of the flag, in one locked
\* section.
tryReconnect(t) ==
  /\ ~crashed
  /\ th[t].pc = "tr1"
  /\ IF reconnectSkips(isReconnecting, AutoReconnect)
     THEN /\ th' = [th EXCEPT ![t] = AfterTryReconnect(t, th[t])]
          /\ UNCHANGED <<isReconnecting, status>>
     ELSE /\ isReconnecting' = TRUE
          /\ status' = "Reconnecting"
          /\ th' = [th EXCEPT ![t].pc = "tr2"]
  /\ UNCHANGED <<proc, orphans, stdoutOutput, stderrOutput, lastActivity,
                 heartbeatTicker, AutoReconnect, crashed, ops, faults, toEmit, delays, ticks, answer, exporter, sc, run, mf>>

\* reconnect.go 103-112 and connect.go 353-369: the stop channel and the
\* delay are read, and cleanupProcess kills the process of sm.cmd.
cleanupProcess(t) ==
  /\ ~crashed
  /\ th[t].pc = "tr2"
  /\ proc' = IF proc = "running" THEN "dead" ELSE proc
  /\ th' = [th EXCEPT ![t].pc = "tr3", ![t].capStop = "cur"]
  /\ UNCHANGED <<status, orphans, stdoutOutput, stderrOutput, lastActivity,
                 heartbeatTicker, isReconnecting, AutoReconnect, crashed, ops, faults, toEmit, delays, ticks, answer, exporter, sc, run, mf>>

\* The loop goroutine as it starts, holding the stop channel read above.
LoopLocals(r) == [NoLocals("l0") EXCEPT !.op = "loop", !.capStop = r.capStop]

\* connect.go 373 and reconnect.go 115: once reconnectWg.Wait() returns the
\* loop goroutine is started and tryReconnect returns.
reconnectStartLoop(t) ==
  /\ ~crashed
  /\ th[t].pc = "tr3"
  /\ readersDone
  /\ delays' = <<>>
  /\ IF t \in RC
     THEN th' = [th EXCEPT ![t] = LoopLocals(th[t])]
     ELSE /\ FreeSlots(RC) # {}
          /\ th' = [Spawn(th, RC, LoopLocals(th[t])) EXCEPT
                      ![t] = AfterTryReconnect(t, th[t])]
  /\ UNCHANGED <<status, proc, orphans, stdoutOutput, stderrOutput, lastActivity,
                 heartbeatTicker, isReconnecting, AutoReconnect, crashed, ops, faults, toEmit, ticks, answer, exporter, sc, run, mf>>

\* reconnect.go 116-126 and 138-140: the stop channel is closed; the
\* deferred function clears the flag.
loopStop(t) ==
  /\ ~crashed
  /\ t \in RC
  /\ th[t].pc = "l0"
  /\ th[t].capStop = "closed"
  /\ isReconnecting' = FALSE
  /\ th' = [th EXCEPT ![t] = NoLocals("off")]
  /\ UNCHANGED <<status, proc, orphans, stdoutOutput, stderrOutput, lastActivity,
                 heartbeatTicker, AutoReconnect, crashed, ops, faults, toEmit, delays, ticks, answer, exporter, sc, run, mf>>

\* The delay of the loop before its next attempt (ms): config.ReconnectDelay.
nextDelay(waited) == DefaultReconnectDelay

\* reconnect.go 129-143: connect has returned: nil ends the loop (the
\* deferred function clears the flag), an error is followed by the wait.
loopResult(t) ==
  /\ ~crashed
  /\ t \in RC
  /\ th[t].pc = "l_ret"
  /\ IF th[t].err = "none"
     THEN /\ isReconnecting' = FALSE
          /\ th' = [th EXCEPT ![t] = NoLocals("off")]
          /\ delays' = delays
     ELSE /\ isReconnecting' = isReconnecting
          /\ th' = [th EXCEPT ![t] = LoopLocals(th[t])]
          /\ delays' = Append(delays, nextDelay(delays))
  /\ UNCHANGED <<status, proc, orphans, stdoutOutput, stderrOutput, lastActivity,
                 heartbeatTicker, AutoReconnect, crashed, ops, faults, toEmit, ticks, answer, exporter, sc, run, mf>>

(***************************************************************************)
(* The child processes, the readers and the clock                          *)
(***************************************************************************)
\* The child process exits on its own.
processDies ==
  /\ ~crashed
  /\ proc = "running"
  /\ faults < MaxFaults
  /\ faults' = faults + 1
  /\ proc' = "dead"
  /\ UNCHANGED <<status, orphans, stdoutOutput, stderrOutput, lastActivity,
                 heartbeatTicker, isReconnecting, AutoReconnect, th, crashed, ops, toEmit, delays, ticks, answer, exporter, sc, run, mf>>

\* A process sm.cmd no longer refers to exits.
orphanDies ==
  /\ ~crashed
  /\ orphans > 0
  /\ orphans' = orphans - 1
  /\ UNCHANGED <<status, proc, stdoutOutput, stderrOutput, lastActivity,
                 heartbeatTicker, isReconnecting, AutoReconnect, th, crashed, ops, faults, toEmit, delays, ticks, answer, exporter, sc, run, mf>>

\* part_003 84-89: the stdout reader appends a line.
readStdout ==
  /\ ~crashed
  /\ LiveProcesses > 0
  /\ toEmit.out # <<>>
  /\ toEmit' = [toEmit EXCEPT !.out = Tail(@)]
  /\ stdoutOutput' = Append(stdoutOutput, Head(toEmit.out))
  /\ lastActivity' = "recent"
  /\ UNCHANGED <<status, proc, orphans, stderrOutput,
                 heartbeatTicker, isReconnecting, AutoReconnect, th, crashed, ops, faults, delays, ticks, answer, exporter, sc, run, mf>>

\* part_003 84-89: the stderr reader appends a line.
readStderr ==
  /\ ~crashed
  /\ LiveProcesses > 0
  /\ toEmit.err # <<>>
  /\ toEmit' = [toEmit EXCEPT !.err = Tail(@)]
  /\ stderrOutput' = Append(stderrOutput, Head(toEmit.err))
  /\ lastActivity' = "recent"
  /\ UNCHANGED <<status, proc, orphans, stdoutOutput,
                 heartbeatTicker, isReconnecting, AutoReconnect, th, crashed, ops, faults, delays, ticks, answer, exporter, sc, run, mf>>

\* Five minutes pass without activity.
timePasses ==
  /\ ~crashed
  /\ lastActivity = "recent"
  /\ lastActivity' = "old"
  /\ UNCHANGED <<status, proc, orphans, stdoutOutput, stderrOutput,
                 heartbeatTicker, isReconnecting, AutoReconnect, th, crashed, ops, faults, toEmit, delays, ticks, answer, exporter, sc, run, mf>>

Next ==
  \/ Connect
  \/ SendCommand
  \/ DisconnectNoop
  \/ Disconnect
  \/ \E t \in RC : loopConnect(t)
  \/ \E t \in Threads, o \in {"ok", "pipe", "start"}, startup \in Startups :
       connectSpawn(t, o, startup)
  \/ \E t \in Threads : connectInspect(t)
  \/ \E t \in Threads : startHeartbeatChecker(t)
  \/ \E t \in HB : heartbeatSelect(t)
  \/ \E t \in HB : heartbeatStop(t)
  \/ \E t \in HB : heartbeatTick(t)
  \/ \E t \in Threads : sendGrace(t)
  \/ \E t \in Threads : exchangeBegin(t)
  \/ \E t \in Threads : exchangeWrite(t)
  \/ \E t \in Threads : handlePipeError(t)
  \/ \E t \in Threads : exchangeTimeout(t)
  \/ \E t \in Threads : exchangePollStdout(t)
  \/ \E t \in Threads : exchangePollStderr(t)
  \/ \E t \in Threads : sendPipeError(t)
  \/ \E t \in Threads : disconnectExit(t)
  \/ \E t \in Threads : disconnectGraceful(t)
  \/ \E t \in Threads : disconnectGraceTimeout(t)
  \/ \E t \in Threads, k \in BOOLEAN : disconnectKill(t, k)
  \/ \E t \in Threads : tryReconnect(t)
  \/ \E t \in Threads : cleanupProcess(t)
  \/ \E t \in Threads : reconnectStartLoop(t)
  \/ \E t \in RC : loopStop(t)
  \/ \E t \in RC : loopResult(t)
  \/ processDies
  \/ orphanDies
  \/ readStdout
  \/ readStderr
  \/ timePasses

Spec == Init /\ [][Next]_vars

(***************************************************************************)
(* A connected session whose configuration is changed while it runs: the   *)
(* caller disables and enables auto-reconnect and disconnects, the child   *)
(* can die, and the heartbeat and the reconnection loop run as above.  The *)
(* child writes nothing, so that a probe of a live child times out.  Up to *)
(* two heartbeat goroutines can exist at a time.                           *)
(***************************************************************************)
\* connect.go 336-342: the flag is cleared under the lock; what follows
\* runs only if it was set.
DisableAutoReconnect ==
  /\ ~crashed
  /\ th[API].pc = "idle"
  /\ ops < MaxOps
  /\ ops' = ops + 1
  /\ AutoReconnect' = FALSE
  /\ th' = [th EXCEPT ![API] =
              [NoLocals(IF AutoReconnect THEN "da_close" ELSE "idle") EXCEPT
                 !.op = "DisableAutoReconnect", !.from = status]]
  /\ UNCHANGED <<status, proc, orphans, stdoutOutput, stderrOutput, lastActivity,
                 heartbeatTicker, isReconnecting, crashed, faults, toEmit, delays, ticks, answer, exporter, sc, run, mf>>

\* connect.go 345-349: without the lock, the stop channel is closed and
\* replaced.
disableStops(t) ==
  /\ ~crashed
  /\ th[t].pc = "da_close"
  /\ th' = [CloseStop(th) EXCEPT ![t].pc = "idle"]
  /\ UNCHANGED <<status, proc, orphans, stdoutOutput, stderrOutput, lastActivity,
                 heartbeatTicker, isReconnecting, AutoReconnect, crashed, ops, faults, toEmit, delays, ticks, answer, exporter, sc, run, mf>>

\* part_003 143-177: the configuration is replaced; auto-reconnect newly
\* on in status Connected starts the heartbeat checker, auto-reconnect
\* newly off closes and replaces the stop channel.
UpdateConfig(auto) ==
  /\ ~crashed
  /\ th[API].pc = "idle"
  /\ ops < MaxOps
  /\ ops' = ops + 1
  /\ AutoReconnect' = auto
  /\ LET r == [NoLocals("idle") EXCEPT !.op = "UpdateConfig", !.from = status]
     IN th' = IF ~AutoReconnect /\ auto /\ status = "Connected"
              THEN [th EXCEPT ![API] = [r EXCEPT !.pc = "c4"]]
              ELSE IF AutoReconnect /\ ~auto
                   THEN [CloseStop(th) EXCEPT ![API] = r]
                   ELSE [th EXCEPT ![API] = r]
  /\ UNCHANGED <<status, proc, orphans, stdoutOutput, stderrOutput, lastActivity,
                 heartbeatTicker, isReconnecting, crashed, faults, toEmit, delays, ticks, answer, exporter, sc, run, mf>>

\* A child that writes nothing, neither once started nor in answer to a
\* command.
Silent == [out |-> <<>>, err |-> <<>>]

\* The session after Connect has returned nil: Connected, the child
\* running, and with auto-reconnect the heartbeat goroutine started.
InitConfig ==
  /\ status = "Connected"
  /\ proc = "running"
  /\ orphans = 0
  /\ stdoutOutput = <<>>
  /\ stderrOutput = <<>>
  /\ lastActivity = "recent"
  /\ AutoReconnect \in BOOLEAN
  /\ heartbeatTicker = IF AutoReconnect THEN "live" ELSE "nil"
  /\ isReconnecting = FALSE
  /\ th = [Idle(HB \cup RC) EXCEPT
             ![API] = [NoLocals("idle") EXCEPT !.op = "Connect", !.from = "Disconnected"],
             !["h1"] = IF AutoReconnect
                       THEN [NoLocals("hb_enter") EXCEPT !.op = "heartbeat"]
                       ELSE NoLocals("off")]
  /\ crashed = FALSE
  /\ ops = 0
  /\ faults = 0
  /\ toEmit = [out |-> <<>>, err |-> <<>>]
  /\ delays = <<>>
  /\ ticks = 0
  /\ answer = Silent
  /\ exporter = NewExporter(FALSE, FALSE, <<>>)
  /\ sc = NoScrape
  /\ run = NoRun
  /\ mf = NoFile

NextConfig ==
  \/ DisableAutoReconnect
  \/ \E t \in Threads : disableStops(t)
  \/ \E auto \in BOOLEAN : UpdateConfig(auto)
  \/ DisconnectNoop
  \/ Disconnect
  \/ \E t \in RC : loopConnect(t)
  \/ \E t \in Threads, o \in {"ok", "pipe", "start"} : connectSpawn(t, o, Silent)
  \/ \E t \in Threads : connectInspect(t)
  \/ \E t \in Threads : startHeartbeatChecker(t)
  \/ \E t \in HB : heartbeatSelect(t)
  \/ \E t \in HB : heartbeatStop(t)
  \/ \E t \in HB : heartbeatTick(t)
  \/ \E t \in Threads : sendGrace(t)
  \/ \E t \in Threads : exchangeBegin(t)
  \/ \E t \in Threads : exchangeWrite(t)
  \/ \E t \in Threads : handlePipeError(t)
  \/ \E t \in Threads : exchangeTimeout(t)
  \/ \E t \in Threads : sendPipeError(t)
  \/ \E t \in Threads : disconnectExit(t)
  \/ \E t \in Threads, k \in BOOLEAN : disconnectKill(t, k)
  \/ \E t \in Threads : tryReconnect(t)
  \/ \E t \in Threads : cleanupProcess(t)
  \/ \E t \in Threads : reconnectStartLoop(t)
  \/ \E t \in RC : loopStop(t)
  \/ \E t \in RC : loopResult(t)
  \/ processDies
  \/ timePasses

SpecConfig == InitConfig /\ [][NextConfig]_vars

(***************************************************************************)
(* One command channel on its own: a session that is Connected, without    *)
(* heartbeat or reconnection, whose child answers every command with the   *)
(* same lines.  The answer is any short list of lines on stdout and at     *)
(* most one line on stderr.                                                *)
(***************************************************************************)
PaddedLine == <<" "," ","S","R","V","0","1"," ">>

MaxLen == 4

AnswerLines == {PromptLine, DataLine, PaddedLine, RowsLine}

Answers ==
  [out : UNION {[1..n -> AnswerLines] : n \in 0..MaxLen},
   err : {<<>>, <<NoticeLine>>}]

InitExchange ==
  /\ status = "Connected"
  /\ proc = "running"
  /\ orphans = 0
  /\ stdoutOutput = <<>>
  /\ stderrOutput = <<>>
  /\ lastActivity = "recent"
  /\ heartbeatTicker = "nil"
  /\ isReconnecting = FALSE
  /\ AutoReconnect = FALSE
  /\ th = Idle(OneHeartbeat)
  /\ crashed = FALSE
  /\ ops = 0
  /\ faults = 0
  /\ toEmit = [out |-> <<>>, err |-> <<>>]
  /\ delays = <<>>
  /\ ticks = 0
  /\ answer \in Answers
  /\ exporter = NewExporter(FALSE, FALSE, <<>>)
  /\ sc = NoScrape
  /\ run = NoRun
  /\ mf = NoFile

NextExchange ==
  \/ SendCommand
  \/ exchangeBegin(API)
  \/ exchangeWrite(API)
  \/ exchangeTimeout(API)
  \/ exchangePollStdout(API)
  \/ exchangePollStderr(API)
  \/ readStdout
  \/ readStderr

SpecExchange == InitExchange /\ [][NextExchange]_vars

(***************************************************************************)
(* The scrape engine (part_001, part_002).  The session is seen through    *)
(* its API: Connect, Disconnect and SendCommand are single steps that      *)
(* leave the status the session code leaves, and the steps of the          *)
(* session's own goroutines show as changes of the status between the      *)
(* steps of the scrape.  Of the session, only the status and the           *)
(* auto-reconnect flag are followed here.  One scrape runs at a time, and  *)
(* the catalog is as the reload at part_001 153 leaves it.                 *)
(***************************************************************************)
MaxScrapes == 2
MaxDefs == 2
MaxBackground == 2

\* part_001 275: the polls of a session that is Reconnecting.
ReconnectPolls == 5

\* The kinds of metric definition: whether validateMetricDesc accepts it
\* (part_001 357-388), Extended, IgnoreZeroResult.
Definitions ==
  {[valid |-> TRUE, extended |-> FALSE, ignoreZero |-> FALSE],
   [valid |-> FALSE, extended |-> FALSE, ignoreZero |-> FALSE],
   [valid |-> TRUE, extended |-> TRUE, ignoreZero |-> FALSE],
   [valid |-> TRUE, extended |-> FALSE, ignoreZero |-> TRUE]}

Catalogs == UNION {[1..n -> Definitions] : n \in 0..MaxDefs}

\* What the session does with a command once it is let through: it answers,
\* the deadline passes, or the write meets a closed pipe.
SendOutcomes == {"none", "timeout", "write"}

\* What a definition's scrape meets: a failure of the command, output of
\* fewer than three lines, a failure while the metrics are generated, no
\* samples, or samples.
MetricOutcomes == {"timeout", "write", "short", "generate", "zero", "samples"}

\* Connect() (connect.go 53-184) in status s: the status it leaves, and
\* whether it returns nil.
sessionConnect(s, o) ==
  IF AlreadyConnecting(s) THEN s
  ELSE IF o = "ok" THEN "Connected" ELSE "ConnectionError"
connectSucceeds(s, o) == ~AlreadyConnecting(s) /\ o = "ok"

\* Disconnect() (connect.go 187-309): the status it leaves.
sessionDisconnect(s) == "Disconnected"

\* SendCommand (command.go 14-112) in status s: the error it returns, and
\* the status it leaves (a pipe error sets ConnectionError, part_003 131).
sendError(s, o) == IF sendAdmits(s) THEN o ELSE "notconnected"
sessionSendCommand(s, o) ==
  IF sendAdmits(s) /\ isPipeError(o) THEN "ConnectionError" ELSE s

\* The variables the scrape engine's steps leave alone.
sessionRest ==
  <<proc, orphans, stdoutOutput, stderrOutput, lastActivity, heartbeatTicker,
    isReconnecting, AutoReconnect, th, crashed, ops, faults, toEmit, delays,
    ticks, answer, run, mf>>

\* checkConnection returns true, or false.
Proceed(r) == [r EXCEPT !.pc = "ping1", !.path = "proceed"]
Abort(r) == [r EXCEPT !.pc = "ret", !.path = "abort"]

\* A scrape that begins without resetting the availability gauges.
scrapeKeepsGauges ==
  /\ sc.pc \in {"idle", "done"}
  /\ exporter.totalScrapes < MaxScrapes
  /\ exporter' = [exporter EXCEPT !.totalScrapes = @ + 1]
  /\ sc' = [NoScrape EXCEPT !.pc = "check", !.errors0 = exporter.scrapeErrors]
  /\ UNCHANGED <<status, sessionRest>>

\* part_001 122-127: a scrape begins.
scrape ==
  /\ sc.pc \in {"idle", "done"}
  /\ exporter.totalScrapes < MaxScrapes
  /\ exporter' = [exporter EXCEPT !.totalScrapes = @ + 1,
                                  !.gatewayServerUp = 0,
                                  !.applicationServerUp = 0]
  /\ sc' = [NoScrape EXCEPT !.pc = "check", !.errors0 = exporter.scrapeErrors]
  /\ UNCHANGED <<status, sessionRest>>

\* part_001 216-274: checkConnection reads the status and takes its branch.
checkConnection ==
  /\ sc.pc = "check"
  /\ LET r == [sc EXCEPT !.status = status]
     IN sc' = CASE status = "Connected" -> Proceed(r)
                [] status \in {"Disconnected", "ConnectionError"} ->
                     IF AutoReconnect
                     THEN [r EXCEPT !.pc = IF status = "ConnectionError"
                                           THEN "cc_disc" ELSE "cc_conn"]
                     ELSE Abort(r)
                [] status \in {"Disconnecting", "Connecting"} -> Abort(r)
                [] status = "Reconnecting" -> [r EXCEPT !.pc = "cc_wait"]
  /\ UNCHANGED <<status, exporter, sessionRest>>

\* part_001 239-249: the Disconnect before the reconnect attempt.
checkConnectionDisconnect ==
  /\ sc.pc = "cc_disc"
  /\ status' = sessionDisconnect(status)
  /\ sc' = [sc EXCEPT !.pc = "cc_conn", !.calls = Append(@, <<"Disconnect", "none">>)]
  /\ UNCHANGED <<exporter, sessionRest>>

\* part_001 251-258: the reconnect attempt.
checkConnectionConnect(o) ==
  /\ sc.pc = "cc_conn"
  /\ status' = sessionConnect(status, o)
  /\ LET ok == connectSucceeds(status, o)
         r == [sc EXCEPT !.calls = Append(@, <<"Connect", IF ok THEN "none" ELSE "failed">>)]
     IN sc' = IF ok THEN Proceed(r) ELSE Abort(r)
  /\ UNCHANGED <<exporter, sessionRest>>

\* part_001 280: a poll that ends the wait with true on any status but
\* Reconnecting.
pollSucceedsUnlessReconnecting(s) == s # "Reconnecting"

\* part_001 280: the status with which a poll ends the wait with true.
pollSucceeds(s) == s = "Connected"

\* part_001 275-290: one poll of a session that is Reconnecting.
checkConnectionPoll ==
  /\ sc.pc = "cc_wait"
  /\ LET r == [sc EXCEPT !.i = @ + 1, !.cur = status]
     IN sc' = IF pollSucceeds(status) THEN Proceed(r)
              ELSE IF status # "Reconnecting" THEN Abort(r)
              ELSE IF r.i < ReconnectPolls THEN r
              ELSE Abort(r)
  /\ UNCHANGED <<status, exporter, sessionRest>>

\* A ping (part_001 316-338) on locals r: the command is sent; an error
\* leads to the Disconnect.
ping(r, o, next) ==
  LET e == sendError(status, o)
  IN [r EXCEPT !.calls = Append(@, <<"SendCommand", e>>),
               !.err = e,
               !.pc = IF e = "none" THEN next ELSE "ping_disc"]

\* part_001 143-146.
pingGatewayServer(o) ==
  /\ sc.pc = "ping1"
  /\ status' = sessionSendCommand(status, o)
  /\ sc' = ping(sc, o, "ping2")
  /\ exporter' = IF sc'.err = "none"
                 THEN [exporter EXCEPT !.gatewayServerUp = 1]
                 ELSE exporter
  /\ UNCHANGED sessionRest

\* part_001 148-151.
pingApplicationServer(o) ==
  /\ sc.pc = "ping2"
  /\ status' = sessionSendCommand(status, o)
  /\ sc' = ping(sc, o, "metrics")
  /\ exporter' = IF sc'.err = "none"
                 THEN [exporter EXCEPT !.applicationServerUp = 1]
                 ELSE exporter
  /\ UNCHANGED sessionRest

\* part_001 321-322, 333-334: the failed ping disconnects and returns.
pingDisconnect ==
  /\ sc.pc = "ping_disc"
  /\ status' = sessionDisconnect(status)
  /\ sc' = [sc EXCEPT !.pc = "ret", !.calls = Append(@, <<"Disconnect", "none">>)]
  /\ UNCHANGED <<exporter, sessionRest>>

\* The command error among the outcomes of a definition's scrape.
commandOutcome(o) == IF o \in {"timeout", "write"} THEN o ELSE "none"

\* part_002 23-69 with no regard for IgnoreZeroResult.
scrapeGenericValuesStrict(m, s, o) ==
  LET e == sendError(s, commandOutcome(o))
  IN IF e # "none" THEN e
     ELSE IF o = "short" THEN "invalid"
     ELSE IF o = "generate" THEN "generate"
     ELSE IF o = "zero" THEN "nometrics"
     ELSE "none"

\* part_002 23-69: the error scrapeGenericValues returns for definition m
\* in status s when its scrape meets o.
scrapeGenericValues(m, s, o) ==
  LET e == sendError(s, commandOutcome(o))
  IN IF e # "none" THEN e
     ELSE IF o = "short" THEN "invalid"
     ELSE IF o = "generate" THEN "generate"
     ELSE IF o = "zero" /\ ~m.ignoreZero THEN "nometrics"
     ELSE "none"

\* part_001 155-166: the definitions the loop passes over.
skipsMetric(m) ==
  ~m.valid \/ (m.extended /\ exporter.DisableExtendedMetrics)

\* part_001 155-166: a definition that is invalid, or extended while
\* extended metrics are disabled, is passed over.
scrapeSkip ==
  /\ sc.pc = "metrics"
  /\ sc.k <= Len(exporter.Metric)
  /\ skipsMetric(exporter.Metric[sc.k])
  /\ sc' = [sc EXCEPT !.k = @ + 1]
  /\ UNCHANGED <<status, exporter, sessionRest>>

\* part_001 168-181: one definition is scraped.
scrapeMetric(o) ==
  /\ sc.pc = "metrics"
  /\ sc.k <= Len(exporter.Metric)
  /\ ~skipsMetric(exporter.Metric[sc.k])
  /\ LET e == scrapeGenericValues(exporter.Metric[sc.k], status, o)
     IN /\ sc' = [sc EXCEPT !.k = @ + 1,
                            !.err = e,
                            !.calls = Append(@, <<"SendCommand", sendError(status, commandOutcome(o))>>),
                            !.dispatched = Append(@, sc.k),
                            !.results = Append(@, IF sendAdmits(status)
                                                  THEN o ELSE "notconnected")]
        /\ exporter' = IF e = "none" THEN exporter
                       ELSE [exporter EXCEPT !.scrapeErrors = @ + 1]
  /\ status' = sessionSendCommand(status, commandOutcome(o))
  /\ UNCHANGED sessionRest

\* part_001 184-188: the loop is over; with reconnect-after-scrape the
\* reconnection is counted and begun.
scrapeLoopEnd ==
  /\ sc.pc = "metrics"
  /\ sc.k > Len(exporter.Metric)
  /\ IF exporter.ReconnectAfterScrape
     THEN /\ sc' = [sc EXCEPT !.pc = "rs_disc"]
          /\ exporter' = [exporter EXCEPT !.reconnectsTotal = @ + 1]
     ELSE /\ sc' = [sc EXCEPT !.pc = "ret"]
          /\ exporter' = exporter
  /\ UNCHANGED <<status, sessionRest>>

\* part_001 190-198: the disconnect and the pause.
reconnectDisconnect ==
  /\ sc.pc = "rs_disc"
  /\ status' = sessionDisconnect(status)
  /\ sc' = [sc EXCEPT !.pc = "rs_conn", !.calls = Append(@, <<"Disconnect", "none">>)]
  /\ UNCHANGED <<exporter, sessionRest>>

\* part_001 200-211: the connect; the duration of the reconnection is set.
reconnectConnect(o) ==
  /\ sc.pc = "rs_conn"
  /\ status' = sessionConnect(status, o)
  /\ sc' = [sc EXCEPT !.pc = "ret",
                       !.calls = Append(@, <<"Connect",
                                             IF connectSucceeds(status, o)
                                             THEN "none" ELSE "failed">>)]
  /\ exporter' =
       LET E == [exporter EXCEPT !.lastReconnectDuration = exporter.totalScrapes]
       IN IF connectSucceeds(status, o) THEN E
          ELSE [E EXCEPT !.reconnectErrors = @ + 1,
                         !.error = [at |-> exporter.totalScrapes, v |-> 1]]
  /\ UNCHANGED sessionRest

\* part_001 129-137: scrape returns; the deferred function sets the
\* duration and the error gauge.
scrapeReturn ==
  /\ sc.pc = "ret"
  /\ sc' = [sc EXCEPT !.pc = "done"]
  /\ exporter' = [exporter EXCEPT
                    !.duration = exporter.totalScrapes,
                    !.error = [at |-> exporter.totalScrapes,
                               v |-> IF sc.err = "none" THEN 0 ELSE 1]]
  /\ UNCHANGED <<status, sessionRest>>

\* The status as the session's goroutines change it with auto-reconnect on:
\* tryReconnect sets Reconnecting (reconnect.go 85-147), the loop's connect
\* sets Connecting and then Connected or ConnectionError (connect.go 62, 171,
\* 87-167).
BackgroundNext(s) ==
  CASE s = "Connected" -> {"Reconnecting"}
    [] s = "ConnectionError" -> {"Reconnecting", "Connecting"}
    [] s = "Reconnecting" -> {"Connecting"}
    [] s = "Connecting" -> {"Connected", "ConnectionError"}
    [] OTHER -> {}

sessionBackground ==
  /\ AutoReconnect
  /\ sc.pc \notin {"idle", "done"}
  /\ sc.bg < MaxBackground
  /\ status' \in BackgroundNext(status)
  /\ sc' = [sc EXCEPT !.bg = @ + 1]
  /\ UNCHANGED <<exporter, sessionRest>>

InitScrape ==
  /\ status \in Status
  /\ AutoReconnect \in BOOLEAN
  /\ status = "Reconnecting" => AutoReconnect
  /\ proc = "none"
  /\ orphans = 0
  /\ stdoutOutput = <<>>
  /\ stderrOutput = <<>>
  /\ lastActivity = "recent"
  /\ heartbeatTicker = "nil"
  /\ isReconnecting = FALSE
  /\ th = Idle(OneHeartbeat)
  /\ crashed = FALSE
  /\ ops = 0
  /\ faults = 0
  /\ toEmit = [out |-> <<>>, err |-> <<>>]
  /\ delays = <<>>
  /\ ticks = 0
  /\ answer = [out |-> Response, err |-> <<>>]
  /\ \E r, d \in BOOLEAN : \E c \in Catalogs : exporter = NewExporter(r, d, c)
  /\ sc = NoScrape
  /\ run = NoRun
  /\ mf = NoFile

NextScrape ==
  \/ scrape
  \/ checkConnection
  \/ checkConnectionDisconnect
  \/ \E o \in {"ok", "fail"} : checkConnectionConnect(o)
  \/ checkConnectionPoll
  \/ \E o \in SendOutcomes : pingGatewayServer(o)
  \/ \E o \in SendOutcomes : pingApplicationServer(o)
  \/ pingDisconnect
  \/ scrapeSkip
  \/ \E o \in MetricOutcomes : scrapeMetric(o)
  \/ scrapeLoopEnd
  \/ reconnectDisconnect
  \/ \E o \in {"ok", "fail"} : reconnectConnect(o)
  \/ scrapeReturn
  \/ sessionBackground

SpecScrape == InitScrape /\ [][NextScrape]_vars

(***************************************************************************)
(* Properties.                                                             *)
(***************************************************************************)
\* The call of SendCommandWithTimeout returns an error to the thread with
\* locals r: to the caller, or to Disconnect, which then kills.
Rejected(r) ==
  \/ r.pc = "idle" /\ r.op = "SendCommand" /\ r.err # "none"
  \/ r.pc = "d_kill"

\* A step that writes nothing to stdin and leaves the status, the process
\* and the output queues alone.
SessionUntouched ==
  UNCHANGED <<status, proc, orphans, stdoutOutput, stderrOutput, toEmit>>

\* C1: SendCommandWithTimeout is rejected with an error, with no write to
\* stdin and no change of the status or of the output queues, whenever the
\* status is not Connected; in status Reconnecting it first waits one grace
\* interval, reads the status once more and goes on only if it is Connected.
C1_RejectedUnlessConnected ==
  [][/\ (SendCommand \/ disconnectExit(API))
        => /\ SessionUntouched
           /\ status = "Connected" => th'[API].pc = "s1"
           /\ status = "Reconnecting" => th'[API].pc = "sc_grace"
           /\ status \notin {"Connected", "Reconnecting"} => Rejected(th'[API])
     /\ sendGrace(API)
        => /\ SessionUntouched
           /\ status = "Connected" => th'[API].pc = "s1"
           /\ status # "Connected" => Rejected(th'[API])]_vars

\* C1: a command sent in status Reconnecting has been turned down after the
\* grace interval.
C1_Witness ==
  /\ th[API].pc = "idle"
  /\ th[API].op = "SendCommand"
  /\ th[API].err = "reconnecting"

\* C2: a write or flush that fails while the status is Connected sets the
\* status to ConnectionError, the call returns an error, and tryReconnect
\* is started as a goroutine exactly if auto-reconnect is enabled (the
\* goroutine the model has a free slot for).
C2_PipeErrorEndsInConnectionError ==
  [][\A t \in Threads :
       /\ (handlePipeError(t) /\ status = "Connected")
          => /\ status' = "ConnectionError"
             /\ t = API => th'[t].pc = "sc_ret"
             /\ FreeSlots(RC) # {} =>
                  (AutoReconnect <=>
                     \E r \in RC : th[r].pc = "off" /\ th'[r].pc = "tr1")
             /\ FreeSlots(RC) = {} => \A r \in RC : th'[r] = th[r]
       /\ (sendPipeError(t) /\ th[t].op = "SendCommand")
          => /\ th'[t].pc = "idle"
             /\ th'[t].err = "write"]_vars

\* C2: SendCommand has returned the write error and tryReconnect is under
\* way.
C2_Witness ==
  /\ th[API].pc = "idle"
  /\ th[API].op = "SendCommand"
  /\ th[API].err = "write"
  /\ status \in {"ConnectionError", "Reconnecting"}
  /\ \E r \in RC : th[r].pc # "off"

\* C3: with BackoffConfig.MaxRetries = N > 0 a reconnection loop makes at
\* most N failed attempts.
C3_AtMostMaxRetries == Len(delays) <= CfgMaxRetries

\* The base delay before retry k of the documented backoff (ms): the
\* initial delay, then 1.5 times the previous one, capped at the maximum.
RECURSIVE BackoffDelay(_)
BackoffDelay(k) ==
  IF k = 1 THEN BackoffInitialDelay
  ELSE LET d == (BackoffDelay(k - 1) * 3) \div 2
       IN IF d > BackoffMaxDelay THEN BackoffMaxDelay ELSE d

\* C4: the waits between failed attempts are 5 s, 7.5 s, 11.25 s and so on,
\* never more than MaxDelay.
C4_BackoffDelays ==
  \A k \in 1..Len(delays) :
    /\ delays[k] = BackoffDelay(k)
    /\ delays[k] <= BackoffMaxDelay

\* The goroutines that hold the single-flight flag: tryReconnect past its
\* check, and the loop goroutine until it returns.
Reconnectors ==
  {t \in Threads :
     \/ th[t].pc \in {"tr2", "tr3"}
     \/ t \in RC /\ th[t].pc \in {"l0", "c2", "c3", "c4", "l_ret"}}

\* C5: at most one reconnection loop is active at any time, and a
\* tryReconnect that finds one active, or auto-reconnect disabled, returns
\* without starting a loop and without changing the status.
C5_SingleFlight ==
  /\ [](Cardinality(Reconnectors) <= 1)
  /\ [](Reconnectors # {} => isReconnecting)
  /\ [][\A t \in Threads :
          (tryReconnect(t) /\ (isReconnecting \/ ~AutoReconnect))
          => /\ UNCHANGED <<status, isReconnecting, proc, delays>>
             /\ th'[t].pc \in {"off", "hb_enter"}
             /\ \A u \in Threads \ {t} : th'[u] = th[u]]_vars

\* C5: the heartbeat's tryReconnect has returned at once while the loop of
\* another goroutine is active.
C5_Witness ==
  /\ \E t \in HB : th[t].pc = "hb_enter" /\ th[t].err = "skipped"
  /\ isReconnecting
  /\ AutoReconnect
  /\ \E r \in RC : th[r].pc \in {"l0", "c2", "c3", "c4", "l_ret"}

\* The exchanges in flight: the command is written, the result not yet
\* returned.
InFlight == {t \in Threads : th[t].pc = "poll"}

\* C6: at most one command/response exchange is in flight on the session.
C6_OneExchangeInFlight == Cardinality(InFlight) <= 1

\* The transitions of the documented state machine.
DocumentedTransitions ==
  {<<"Disconnected", "Connecting">>,
   <<"Connecting", "Connected">>, <<"Connecting", "ConnectionError">>,
   <<"Connected", "Disconnecting">>,
   <<"Disconnecting", "Disconnected">>,
   <<"Connected", "Reconnecting">>, <<"ConnectionError", "Reconnecting">>,
   <<"Reconnecting", "Connected">>, <<"Reconnecting", "ConnectionError">>}

\* C7: every change of the status is a transition of the documented state
\* machine.
C7_DocumentedTransitionsOnly ==
  [][status' # status => <<status, status'>> \in DocumentedTransitions]_vars

\* The stderr lines of the model that carry a failure substring.
FailureLines == {RefusedLine}

\* C8: Connect() from Disconnected ends Connected when the process starts
\* with its pipes and no stderr line of the settle window carries a failure
\* substring in any letter case, and ends ConnectionError with an error
\* otherwise; Connect() while Connecting or Connected returns an error and
\* leaves the status and the process as they are.
C8_ConnectOutcome ==
  [][/\ (connectInspect(API) /\ th[API].from = "Disconnected")
        => IF \E i \in 1..Len(stderrOutput) : stderrOutput[i] \in FailureLines
           THEN /\ status' = "ConnectionError"
                /\ th'[API].pc = "idle"
                /\ th'[API].err # "none"
           ELSE /\ status' = "Connected"
                /\ th'[API].err = "none"
     /\ \A o \in {"pipe", "start"} :
          (connectSpawn(API, o, [out |-> <<>>, err |-> <<>>])
             /\ th[API].from = "Disconnected")
          => /\ status' = "ConnectionError"
             /\ th'[API].pc = "idle"
             /\ th'[API].err # "none"
     /\ (Connect /\ status \in {"Connecting", "Connected"})
        => /\ UNCHANGED <<status, proc, orphans>>
           /\ th'[API].pc = "idle"
           /\ th'[API].err # "none"]_vars

\* C8: Connect() from Disconnected has ended in ConnectionError on a stderr
\* line that carries a failure substring in other letter case.
C8_Witness ==
  /\ th[API].pc = "idle"
  /\ th[API].op = "Connect"
  /\ th[API].from = "Disconnected"
  /\ th[API].err = "stderr"
  /\ status = "ConnectionError"
  /\ \E i \in 1..Len(stderrOutput) :
       /\ stderrOutput[i] \in FailureLines
       /\ \A j \in 1..Len(errorPatterns) :
            ~Contains(stderrOutput[i], errorPatterns[j])

\* C9: once Disconnect() has returned, the status is Disconnected until the
\* next Connect().
C9_DisconnectedAfterDisconnect ==
  (th[API].pc = "idle" /\ th[API].op = "Disconnect") => status = "Disconnected"

C11_ExitBeforeKill ==
  (/\ th[API].pc = "d_kill"
   /\ th[API].from = "Connected"
   /\ th[API].dCmd = "cur"
   /\ proc = "running")
  => th[API].err \in {"none", "timeout"}

\* The steps of the goroutine that runs Disconnect().
DisconnectStep ==
  \/ disconnectExit(API)
  \/ sendGrace(API)
  \/ exchangeBegin(API)
  \/ exchangeWrite(API)
  \/ handlePipeError(API)
  \/ sendPipeError(API)
  \/ exchangeTimeout(API)
  \/ disconnectGraceful(API)
  \/ disconnectGraceTimeout(API)
  \/ \E k \in BOOLEAN : disconnectKill(API, k)

\* Disconnect() is running.
InDisconnect == th[API].op = "exit" /\ th[API].pc # "idle"

\* How far Disconnect() has come.
DisconnectRank(pc) ==
  CASE pc = "d2" -> 1
    [] pc = "sc_grace" -> 2
    [] pc = "s1" -> 3
    [] pc = "s2" -> 4
    [] pc = "poll" -> 5
    [] pc = "hp" -> 5
    [] pc = "sc_ret" -> 6
    [] pc = "d_wait" -> 7
    [] pc = "d_kill" -> 8
    [] OTHER -> 9

C14_TimeoutReturnsLines ==
  [][(exchangeTimeout(API) /\ th[API].op = "SendCommand")
       => /\ th'[API].pc = "idle"
          /\ th'[API].err = "timeout"
          /\ th'[API].out = th[API].out
          /\ UNCHANGED <<status, isReconnecting, proc, heartbeatTicker, delays>>
          /\ \A t \in Threads \ {API} : th'[t] = th[t]]_vars

\* A timed-out SendCommand has returned the line it had accumulated; the
\* session is Connected with auto-reconnect on and no reconnection started.
C14_Witness ==
  /\ th[API].pc = "idle"
  /\ th[API].op = "SendCommand"
  /\ th[API].err = "timeout"
  /\ th[API].out = <<DataLine>>
  /\ status = "Connected"
  /\ AutoReconnect
  /\ ~isReconnecting

(***************************************************************************)
(* The command channel (SpecExchange).                                     *)
(***************************************************************************)
\* The first exchange of a session has returned.
FirstReturned ==
  th[API].pc = "idle" /\ th[API].op = "SendCommand" /\ ops = 1

\* The boundary lines of the lines in this model.
IsBoundary(l) == l \in {PromptLine, RowsLine}

\* Position of the first prompt-marker line of s, 0 when there is none.
FirstPrompt(s) ==
  IF \E i \in 1..Len(s) : s[i] = PromptLine
  THEN CHOOSE i \in 1..Len(s) :
         s[i] = PromptLine /\ \A j \in 1..(i - 1) : s[j] # PromptLine
  ELSE 0

\* Position of the first boundary line of s after position i, 0 when
\* there is none.
NextBoundary(s, i) ==
  IF \E j \in (i + 1)..Len(s) : IsBoundary(s[j])
  THEN CHOOSE j \in (i + 1)..Len(s) :
         IsBoundary(s[j]) /\ \A k \in (i + 1)..(j - 1) : ~IsBoundary(s[k])
  ELSE 0

\* The lines of s strictly between its first prompt-marker line and the
\* boundary line that follows, without surrounding white space.
LinesBetween(s) ==
  LET i == FirstPrompt(s)
      j == NextBoundary(s, i)
  IN [k \in 1..(j - i - 1) |-> TrimSpace(s[i + k])]

\* The first occurrences of the lines of s, in order.
RECURSIVE FirstOccurrences(_)
FirstOccurrences(s) ==
  IF s = <<>> THEN <<>>
  ELSE LET r == FirstOccurrences(SubSeq(s, 1, Len(s) - 1))
           x == s[Len(s)]
       IN IF \E i \in 1..Len(r) : r[i] = x THEN r ELSE Append(r, x)

\* The lines of s that came from stdout: the child writes NoticeLine on
\* stderr only.
IsStdoutLine(l) == l # NoticeLine
StdoutLines(s) == SelectSeq(s, IsStdoutLine)

\* C13 as stated: the lines a successful exchange returns are exactly the
\* lines strictly between the first prompt-marker line and the boundary line
\* that follows it (white space around a line apart).
C13_ExactlyLinesBetween ==
  (FirstReturned /\ th[API].err = "none")
    => th[API].out = LinesBetween(answer.out)

\* C13, amended: the stdout lines a successful exchange returns are the first
\* occurrences, in order and without surrounding white space, of the lines
\* strictly between the first prompt-marker line and the boundary line that
\* follows it; lines of stderr may stand among them.  No line before the
\* first prompt, and neither boundary line, is returned, and the exchange
\* succeeds only when the answer has the closing boundary.
C13_LinesBetweenOnce ==
  (FirstReturned /\ th[API].err = "none")
    => /\ FirstPrompt(answer.out) > 0
       /\ NextBoundary(answer.out, FirstPrompt(answer.out)) > 0
       /\ StdoutLines(th[API].out) = FirstOccurrences(LinesBetween(answer.out))

\* A successful exchange over an answer with the same line twice between
\* the boundaries, once with white space around it, and a closing terminator.
C13_Witness ==
  /\ FirstReturned
  /\ th[API].err = "none"
  /\ answer.out = <<PromptLine, DataLine, PaddedLine, RowsLine>>
  /\ th[API].out = <<DataLine>>

\* A SendCommand has returned to the caller.
Returned == th[API].pc = "idle" /\ th[API].op = "SendCommand"

\* C15: the list of lines an exchange returns never holds the same line
\* twice, on the successful return and on the timeout return alike.
C15_NoDuplicateLines ==
  Returned
    => \A i, j \in 1..Len(th[API].out) :
         i # j => th[API].out[i] # th[API].out[j]

\* C16: the same command sent twice to a child that answers with the same
\* stdout and stderr lines both times returns the same list of lines, when
\* both exchanges succeed, whatever the interleaving of the readers and the
\* polls and whatever the first exchange left behind.
C16_SameResultTwice ==
  (/\ Returned
   /\ ops = 2
   /\ th[API].prev # <<>>
   /\ th[API].prev[1] = "none"
   /\ th[API].err = "none")
    => th[API].out = th[API].prev[2]

(***************************************************************************)
(* The scrape engine (SpecScrape).                                         *)
(***************************************************************************)
IsConnectCall(c) == c[1] = "Connect"
IsSendCall(c) == c[1] = "SendCommand"
ConnectCalls == SelectSeq(sc.calls, IsConnectCall)
SendCalls == SelectSeq(sc.calls, IsSendCall)

\* checkConnection has just let the scrape through, or has aborted it.
AtDecision == sc.pc = "ping1" \/ sc.path = "abort"

\* C17: the status read when the scrape starts decides the path.  Connected
\* proceeds to the pings with no call made.  Disconnected and ConnectionError
\* make exactly one Connect attempt when auto-reconnect is on, and the scrape
\* proceeds exactly if it succeeds; they abort with no call otherwise.
\* Reconnecting is polled at most ReconnectPolls times and the scrape
\* proceeds exactly if a poll reads Connected.  Connecting and Disconnecting
\* abort.  An aborted scrape sends no command.
C17_StatusDecidesPath ==
  /\ sc.path = "none" => SendCalls = <<>>
  /\ sc.path = "abort" => SendCalls = <<>>
  /\ AtDecision =>
       /\ sc.status = "Connected" => sc.path = "proceed" /\ sc.calls = <<>>
       /\ (sc.status \in {"Disconnected", "ConnectionError"} /\ ~AutoReconnect)
            => sc.path = "abort" /\ sc.calls = <<>>
       /\ (sc.status \in {"Disconnected", "ConnectionError"} /\ AutoReconnect)
            => /\ Len(ConnectCalls) = 1
               /\ sc.path = "proceed" <=> ConnectCalls[1][2] = "none"
       /\ sc.status = "Reconnecting"
            => /\ sc.calls = <<>>
               /\ sc.i \in 1..ReconnectPolls
               /\ sc.path = "proceed" <=> sc.cur = "Connected"
       /\ sc.status \in {"Connecting", "Disconnecting"}
            => sc.path = "abort" /\ sc.calls = <<>>

\* A scrape that found the session Reconnecting proceeds to the pings after
\* its third poll read Connected.
C17_Witness ==
  /\ sc.pc = "ping1"
  /\ sc.status = "Reconnecting"
  /\ sc.i = 3
  /\ sc.cur = "Connected"

\* The scrape got past checkConnection and one of its two pings failed.
PingFailed ==
  /\ sc.path = "proceed"
  /\ \/ Len(SendCalls) >= 1 /\ SendCalls[1][2] # "none"
     \/ Len(SendCalls) >= 2 /\ SendCalls[2][2] # "none"

\* C18: a scrape in which a ping failed ends with the session's status
\* ConnectionError, with no definition dispatched, and with the duration
\* gauge and the error gauge set by this scrape.
C18_PingFailureTearsDown ==
  (sc.pc = "done" /\ PingFailed)
    => /\ status = "ConnectionError"
       /\ sc.dispatched = <<>>
       /\ exporter.duration = exporter.totalScrapes
       /\ exporter.error.at = exporter.totalScrapes

\* Both pings succeeded and the loop over the catalog is over.
LoopDone ==
  /\ sc.path = "proceed"
  /\ ~PingFailed
  /\ sc.pc \in {"metrics", "rs_disc", "rs_conn", "ret", "done"}
  /\ sc.k > Len(exporter.Metric)

\* The catalog positions of the valid definitions that are not disabled.
IsDispatchable(i) ==
  LET m == exporter.Metric[i]
  IN m.valid /\ ~(m.extended /\ exporter.DisableExtendedMetrics)
Dispatchable ==
  SelectSeq([i \in 1..Len(exporter.Metric) |-> i], IsDispatchable)

\* What counts as an error of a definition's scrape.
CountsAsError(m, r) ==
  \/ r \in {"timeout", "write", "notconnected", "short", "generate"}
  \/ r = "zero" /\ ~m.ignoreZero

\* C19: once both pings have succeeded, the loop dispatches every valid,
\* enabled definition exactly once, in catalog order, whatever earlier
\* definitions returned, and the scrape-error counter has grown by the number
\* of definitions whose scrape returned an error; no samples with
\* ignore-zero-result set is no error.
C19_EveryDefinitionOnce ==
  LoopDone
    => /\ sc.dispatched = Dispatchable
       /\ Len(sc.results) = Len(sc.dispatched)
       /\ exporter.scrapeErrors - sc.errors0 =
            Cardinality({j \in 1..Len(sc.dispatched) :
                           CountsAsError(exporter.Metric[sc.dispatched[j]],
                                         sc.results[j])})

\* The first definition's command timed out and the second, with
\* ignore-zero-result set, yielded no samples: both were dispatched and one
\* error was counted.
C19_Witness ==
  /\ LoopDone
  /\ sc.dispatched = <<1, 2>>
  /\ sc.results = <<"timeout", "zero">>
  /\ exporter.Metric[2].ignoreZero
  /\ exporter.scrapeErrors - sc.errors0 = 1

\* C20: with reconnect-after-scrape configured, a scrape that has returned
\* has ended with a Disconnect and a Connect and has set the reconnect
\* duration, also when it was aborted at the connectivity check or at a
\* failed ping.
C20_ReconnectAfterEveryScrape ==
  (sc.pc = "done" /\ exporter.ReconnectAfterScrape)
    => /\ Len(sc.calls) >= 2
       /\ sc.calls[Len(sc.calls) - 1][1] = "Disconnect"
       /\ sc.calls[Len(sc.calls)][1] = "Connect"
       /\ exporter.lastReconnectDuration = exporter.totalScrapes

\* The after-scrape reconnect of this scrape was made and its Connect failed.
ReconnectFailed ==
  /\ LoopDone
  /\ exporter.ReconnectAfterScrape
  /\ sc.pc \in {"ret", "done"}
  /\ sc.calls[Len(sc.calls)] = <<"Connect", "failed">>

\* At least one dispatched definition's scrape returned an error.
SomeDefinitionFailed ==
  \E j \in 1..Len(sc.dispatched) :
    CountsAsError(exporter.Metric[sc.dispatched[j]], sc.results[j])

\* C21: after a scrape the last_scrape_error gauge is 1 exactly when the
\* scrape was aborted at the connectivity check, a ping failed, a
\* definition's scrape returned an error, or the after-scrape reconnect
\* failed; it is 0 otherwise.
C21_ErrorGaugeTellsOutcome ==
  sc.pc = "done"
    => /\ exporter.error.at = exporter.totalScrapes
       /\ exporter.error.v = 1
            <=> \/ sc.path = "abort"
                \/ PingFailed
                \/ SomeDefinitionFailed
                \/ ReconnectFailed

\* ------------------------------------------------------------------------
\* The tabular parser and the metric mapper (scrapeGenericValues and the
\* functions it calls).  Text is a sequence of one-character strings, a row
\* is a function from column names to values.
\* ------------------------------------------------------------------------

\* row[k] of a Go map: the empty string when the key is missing.
Get(row, k) == IF k \in DOMAIN row THEN row[k] ELSE <<>>

\* row[k] = v of a Go map.
Put(row, k, v) == [x \in DOMAIN row \cup {k} |-> IF x = k THEN v ELSE row[x]]

\* The index of the first character of s that is in the set C, Len(s) + 1
\* if there is none.
IndexAny(s, C) ==
  IF \E i \in 1..Len(s) : s[i] \in C
  THEN CHOOSE i \in 1..Len(s) : s[i] \in C /\ \A j \in 1..(i - 1) : s[j] \notin C
  ELSE Len(s) + 1

\* White space, and the index of the first character of s that is none.
Spaces == {" ", "\t"}

IndexNotSpace(s) == IndexAny(s, {s[i] : i \in 1..Len(s)} \ Spaces)

\* regexp `\s+` replaced by one space.
RECURSIVE CollapseSpaces(_)
CollapseSpaces(s) ==
  IF s = <<>> THEN <<>>
  ELSE IF IsSpace(s[1])
       THEN <<" ">> \o CollapseSpaces(SubSeq(s, IndexNotSpace(s), Len(s)))
       ELSE <<s[1]>> \o CollapseSpaces(Tail(s))

trimHeadRow(s) == CollapseSpaces(TrimSpace(s))

\* strings.Split(s, " "): the empty text splits into one empty token.
RECURSIVE Split(_)
Split(s) ==
  LET i == IndexAny(s, {" "})
  IN IF i > Len(s) THEN <<s>>
     ELSE <<SubSeq(s, 1, i - 1)>> \o Split(SubSeq(s, i + 1, Len(s)))

\* The length of the first run of white space inside the trimmed line.
getSpacerLength(s) ==
  LET t == TrimSpace(s)
      i == IndexAny(t, Spaces)
  IN IF i > Len(t) THEN 0
     ELSE IndexNotSpace(SubSeq(t, i, Len(t))) - 1

\* The layout "2006-01-02 15:04:05" of the flag siebel.date-format.
dateFormat == <<"2","0","0","6","-","0","1","-","0","2"," ","1","5",":","0","4",":","0","5">>

Digit(c) ==
  CASE c = "0" -> 0 [] c = "1" -> 1 [] c = "2" -> 2 [] c = "3" -> 3
    [] c = "4" -> 4 [] c = "5" -> 5 [] c = "6" -> 6 [] c = "7" -> 7
    [] c = "8" -> 8 [] c = "9" -> 9 [] OTHER -> -1

IsDigit(c) == Digit(c) >= 0

AllDigits(s) == \A i \in 1..Len(s) : IsDigit(s[i])

\* The number a text of digits denotes.
RECURSIVE Atoi(_)
Atoi(s) == IF s = <<>> THEN 0 ELSE 10 * Atoi(SubSeq(s, 1, Len(s) - 1)) + Digit(s[Len(s)])

\* fmt.Sprint of an integer.
RECURSIVE Itoa(_)
Itoa(n) ==
  IF n < 0 THEN <<"-">> \o Itoa(0 - n)
  ELSE IF n < 10 THEN <<<<"0","1","2","3","4","5","6","7","8","9">>[n + 1]>>
  ELSE Itoa(n \div 10) \o Itoa(n % 10)

IsLeap(y) == y % 4 = 0 /\ (y % 100 # 0 \/ y % 400 = 0)

DaysIn(y, m) ==
  IF m = 2 THEN (IF IsLeap(y) THEN 29 ELSE 28)
  ELSE IF m \in {4, 6, 9, 11} THEN 30 ELSE 31

\* Days from 1970-01-01 to the first day of year y (negative before 1970).
DaysBeforeYear(y) ==
  LET p == y - 1
  IN 365 * (y - 1970) + (p \div 4 - p \div 100 + p \div 400) - 477

RECURSIVE DaysBeforeMonth(_, _)
DaysBeforeMonth(y, m) == IF m = 1 THEN 0 ELSE DaysBeforeMonth(y, m - 1) + DaysIn(y, m - 1)

\* time.Parse with the layout above, then Unix(): [ok, unix].
ParseTime(s) ==
  LET shape == /\ Len(s) = Len(dateFormat)
               /\ \A i \in 1..Len(s) :
                    IF IsDigit(dateFormat[i]) THEN IsDigit(s[i]) ELSE s[i] = dateFormat[i]
      y  == Atoi(SubSeq(s, 1, 4))
      mo == Atoi(SubSeq(s, 6, 7))
      d  == Atoi(SubSeq(s, 9, 10))
      h  == Atoi(SubSeq(s, 12, 13))
      mi == Atoi(SubSeq(s, 15, 16))
      se == Atoi(SubSeq(s, 18, 19))
      ok == /\ shape
            /\ mo \in 1..12 /\ d >= 1 /\ d <= DaysIn(y, mo)
            /\ h < 24 /\ mi < 60 /\ se < 60
  IN [ok |-> ok,
      unix |-> IF ok
               THEN (DaysBeforeYear(y) + DaysBeforeMonth(y, mo) + d - 1) * 86400
                      + h * 3600 + mi * 60 + se
               ELSE 0]

convertDateStringToTimestamp(s) ==
  IF s = <<"0","0","0","0","-","0","0","-","0","0"," ","0","0",":","0","0",":","0","0">> THEN <<"0">>
  ELSE IF ParseTime(s).ok THEN Itoa(ParseTime(s).unix) ELSE s

\* If Siebel gives ugly names back: trim, spaces to "_", drop what is not
\* a letter, a digit or "_", lower case.
IsNameChar(c) == IsDigit(c) \/ c = "_" \/ \E i \in 1..Len(Upper) : c = Upper[i] \/ c = Lower[i]

cleanName(s) ==
  LET t == TrimSpace(s)
      u == [i \in 1..Len(t) |-> IF t[i] = " " THEN "_" ELSE t[i]]
  IN ToLower(SelectSeq(u, IsNameChar))

\* All that is left of the line, whatever the width of the column.
restOfLine(a, b) == b

Min(a, b) == IF a < b THEN a ELSE b

\* The column loop of getSiebelData for one data line, from column colIndex on.
RECURSIVE parseColumns(_, _, _, _, _, _)
parseColumns(rawRow, parsedRow, colIndex, columnsNames, lengths, override) ==
  IF colIndex > Len(columnsNames) THEN parsedRow
  ELSE IF colIndex > Len(lengths)
       THEN parseColumns(rawRow, parsedRow, colIndex + 1, columnsNames, lengths, override)
  ELSE LET colMaxLen == Min(lengths[colIndex], Len(rawRow))
           trimmed == TrimSpace(SubSeq(rawRow, 1, colMaxLen))
           filled == IF Len(trimmed) = 0 /\ override THEN <<"0">> ELSE trimmed
           colValue == IF Len(filled) = Len(dateFormat)
                       THEN convertDateStringToTimestamp(filled)
                       ELSE filled
       IN IF colMaxLen <= 0
          THEN parseColumns(rawRow, parsedRow, colIndex + 1, columnsNames, lengths, override)
          ELSE parseColumns(SubSeq(rawRow, colMaxLen + 1, Len(rawRow)),
                            Put(parsedRow, columnsNames[colIndex], colValue),
                            colIndex + 1, columnsNames, lengths, override)

\* The data-row loop of getSiebelData: blank lines are skipped.
RECURSIVE parseRows(_, _, _, _)
parseRows(rawDataRows, columnsNames, lengths, override) ==
  IF rawDataRows = <<>> THEN <<>>
  ELSE (IF TrimSpace(rawDataRows[1]) = <<>>
        THEN <<>>
        ELSE <<parseColumns(rawDataRows[1], <<>>, 1, columnsNames, lengths, override)>>)
       \o parseRows(Tail(rawDataRows), columnsNames, lengths, override)

\* What SendCommand returned: an error, or the lines of the response.
SendFailed(response) == response.err # "nil"

\* The least number of lines of a response that is parsed.
LeastLines == 3

\* getSiebelData after SendCommand, for a response of at least so many
\* lines: [err, rows].
parseResponse(response, override, least) ==
  LET lines == response.lines
      columnsNames == Split(trimHeadRow(lines[1]))
      spacerLength == getSpacerLength(lines[2])
      separators == Split(trimHeadRow(lines[2]))
      lengths == [i \in 1..Len(separators) |-> Len(separators[i]) + spacerLength]
  IN IF SendFailed(response) THEN [err |-> response.err, rows |-> <<>>]
     ELSE IF Len(lines) < least THEN [err |-> "command output is not valid", rows |-> <<>>]
     ELSE [err |-> "nil",
           rows |-> parseRows(SubSeq(lines, 3, Len(lines)), columnsNames, lengths, override)]

\* strings.Join
RECURSIVE Join(_, _)
Join(parts, sep) ==
  IF parts = <<>> THEN <<>>
  ELSE IF Len(parts) = 1 THEN parts[1]
  ELSE parts[1] \o sep \o Join(Tail(parts), sep)

NonEmpty(s) == s # <<>>

\* prometheus.BuildFQName: the non-empty parts joined by "_", nothing
\* without a name.
BuildFQName(namespace, subsystem, name) ==
  IF name = <<>> THEN <<>>
  ELSE Join(SelectSeq(<<namespace, subsystem, name>>, NonEmpty), <<"_">>)

createMetricKey(namespace, subsystem, name, labelValues) ==
  BuildFQName(namespace, subsystem, name)
    \o <<"{">> \o Join(labelValues, <<",">>) \o <<"}">>

\* The value type of a column: a gauge unless the definition says otherwise.
getMetricType(metricName, metricsTypes) ==
  IF metricName \notin DOMAIN metricsTypes THEN "gauge"
  ELSE LET strType == ToLower(metricsTypes[metricName])
       IN IF strType = <<"g","a","u","g","e">> THEN "gauge"
          ELSE IF strType = <<"c","o","u","n","t","e","r">> THEN "counter"
          ELSE IF strType = <<"h","i","s","t","o","g","r","a","m">> THEN "untyped"
          ELSE "gauge"

\* strconv.ParseFloat and strconv.ParseUint on the texts of the model, whose
\* numbers are written with digits only: [ok, v].
ParseNumber(s) ==
  [ok |-> s # <<>> /\ AllDigits(s), v |-> IF s # <<>> /\ AllDigits(s) THEN Atoi(s) ELSE 0]

getSiebelDataFromTwoLines(response, override) == parseResponse(response, override, LeastLines - 1)

getSiebelData(response, override) == parseResponse(response, override, LeastLines)

\* The orders in which a range statement may visit the keys of a map.
Orders(S) ==
  {o \in [1..Cardinality(S) -> S] : \A x \in S : \E i \in 1..Cardinality(S) : o[i] = x}

\* No value is mapped.
mapValueNever(metricMap, metricValue, keys) == metricValue

\* The value-mapping loop: the mapped value of the first key, in the order the
\* map is visited, whose clean name is that of the value.
RECURSIVE mapValue(_, _, _)
mapValue(metricMap, metricValue, keys) ==
  IF keys = <<>> THEN metricValue
  ELSE IF cleanName(keys[1]) = cleanName(metricValue) THEN metricMap[keys[1]]
  ELSE mapValue(metricMap, metricValue, Tail(keys))

\* The label values of a row: "unknown" for a blank one.
labelsValues(row, metric) ==
  [i \in 1..Len(metric.Labels) |->
     IF TrimSpace(Get(row, metric.Labels[i])) = <<>>
     THEN <<"u","n","k","n","o","w","n">>
     ELSE Get(row, metric.Labels[i])]

\* The (limit, counter) pairs of a histogram sample: a bucket whose limit or
\* counter is no number is left out.
histogramBuckets(row, fields) ==
  {<<ParseNumber(TrimSpace(fields[f])).v,
     ParseNumber(IF TrimSpace(Get(row, f)) = <<>> THEN <<"0">> ELSE TrimSpace(Get(row, f))).v>> :
     f \in {g \in DOMAIN fields :
              /\ ParseNumber(TrimSpace(fields[g])).ok
              /\ ParseNumber(IF TrimSpace(Get(row, g)) = <<>> THEN <<"0">>
                             ELSE TrimSpace(Get(row, g))).ok}}

\* One turn of the loop over metric.Help in convertRowToMetrics, for the
\* column metricName: the samples it appends and the keys seen after it.
\* keys tells in which order each value map is visited.
convertColumn(row, namespace, metric, seenMetrics, metricName, keys) ==
  LET skip == [metrics |-> <<>>, seen |-> seenMetrics]
      metricType == getMetricType(metricName, metric.Type)
      fieldValue == Get(row, metric.FieldToAppend)
      appended == IF cleanName(fieldValue) = <<>>
                  THEN <<"u","n","k","n","o","w","n","_">> \o cleanName(metricName)
                  ELSE cleanName(fieldValue)
      named == IF metric.FieldToAppend # <<>> THEN appended ELSE cleanName(metricName)
      metricNameCleaned == IF named = <<>> THEN <<"u","n","k","n","o","w","n","_","m","e","t","r","i","c">> ELSE named
      metricHelp == IF /\ metricName \in DOMAIN metric.HelpField
                       /\ metric.HelpField[metricName] \in DOMAIN row
                    THEN metric.Help[metricName] \o <<" ">> \o row[metric.HelpField[metricName]]
                    ELSE metric.Help[metricName]
      raw == Get(row, metricName)
      blank == TrimSpace(raw) = <<>>
      isTime == \/ Contains(ToLower(metricName), <<"t","i","m","e">>)
                \/ Contains(ToLower(metricHelp), <<"t","i","m","e">>)
      metricValue == IF blank THEN <<"0">> ELSE raw
      mapped == IF /\ metricName \in DOMAIN metric.ValueMap
                   /\ DOMAIN metric.ValueMap[metricName] # {}
                THEN mapValue(metric.ValueMap[metricName], metricValue, keys[metricName])
                ELSE metricValue
      metricValueParsed == ParseNumber(mapped)
      values == labelsValues(row, metric)
      metricKey == createMetricKey(namespace, metric.Subsystem, metricNameCleaned, values)
      marked == seenMetrics \cup {metricKey}
      sample == [column |-> metricName,
                 subsystem |-> metric.Subsystem,
                 cleaned |-> metricNameCleaned,
                 name |-> BuildFQName(namespace, metric.Subsystem, metricNameCleaned),
                 labelNames |-> [i \in 1..Len(metric.Labels) |-> cleanName(metric.Labels[i])],
                 labelValues |-> values,
                 type |-> metricType,
                 value |-> metricValueParsed.v,
                 count |-> 0,
                 buckets |-> {}]
      countValue == Get(row, <<"c","o","u","n","t">>)
      count == ParseNumber(TrimSpace(countValue))
  IN IF metric.FieldToAppend # <<>> /\ TrimSpace(fieldValue) = <<>> THEN skip
     ELSE IF blank /\ isTime THEN skip
     ELSE IF ~metricValueParsed.ok THEN skip
     ELSE IF metricKey \in seenMetrics THEN skip
     ELSE IF metricType \in {"gauge", "counter"}
          THEN [metrics |-> <<sample>>, seen |-> marked]
     ELSE IF TrimSpace(countValue) = <<>> \/ ~count.ok
          THEN [metrics |-> <<>>, seen |-> marked]
     ELSE [metrics |->
             <<[sample EXCEPT !.type = "histogram", !.count = count.v,
                  !.buckets = IF metricName \in DOMAIN metric.Buckets
                              THEN histogramBuckets(row, metric.Buckets[metricName])
                              ELSE {}]>>,
           seen |-> marked]

\* The loop over metric.Help, visited in the given order.
RECURSIVE convertColumns(_, _, _, _, _, _)
convertColumns(row, namespace, metric, seenMetrics, order, keys) ==
  IF order = <<>> THEN [metrics |-> <<>>, seen |-> seenMetrics]
  ELSE LET first == convertColumn(row, namespace, metric, seenMetrics, order[1], keys)
           rest == convertColumns(row, namespace, metric, first.seen, Tail(order), keys)
       IN [metrics |-> first.metrics \o rest.metrics, seen |-> rest.seen]

\* convertRowToMetrics: nothing for a row whose field to append is blank.
convertRowToMetrics(row, namespace, metric, seenMetrics, order, keys) ==
  IF metric.FieldToAppend # <<>> /\ TrimSpace(Get(row, metric.FieldToAppend)) = <<>>
  THEN [metrics |-> <<>>, seen |-> seenMetrics]
  ELSE convertColumns(row, namespace, metric, seenMetrics, order, keys)

\* The orders in which the value maps of a definition may be visited.
KeyOrders(metric) ==
  {keys \in [DOMAIN metric.ValueMap ->
               UNION {Orders(DOMAIN metric.ValueMap[n]) : n \in DOMAIN metric.ValueMap}] :
     \A n \in DOMAIN metric.ValueMap : keys[n] \in Orders(DOMAIN metric.ValueMap[n])}

\* ------------------------------------------------------------------------
\* The definitions loop of scrape over parsed responses.
\* ------------------------------------------------------------------------

MaxCatalog == 2

namespace == <<"s","i","e","b","e","l">>

NoMap == <<>>

\* A definition of the metrics file with nothing but a command and a
\* subsystem.
Metric(command, subsystem) ==
  [Command |-> command, Subsystem |-> subsystem, Help |-> NoMap, HelpField |-> NoMap,
   Type |-> NoMap, Buckets |-> NoMap, ValueMap |-> NoMap, Labels |-> <<>>,
   FieldToAppend |-> <<>>, IgnoreZeroResult |-> FALSE, Extended |-> FALSE]

ColName == <<"N","A","M","E">>
ColState == <<"S","T","A","T","E">>
ColTasks == <<"T","A","S","K","S">>
ColAvg == <<"A","V","G">>
ColStart == <<"S","T","A","R","T","_","T","I","M","E">>
ColAlias == <<"A","L","I","A","S">>

\* The state of a server as a number, by value map.
StateMetric ==
  [Metric(<<"l","i","s","t"," ","s","e","r","v","e","r","s">>, <<"s","r","v">>) EXCEPT
     !.Help = ColState :> <<"s","t","a","t","e">>,
     !.ValueMap = ColState :> (<<"R","u","n","n","i","n","g">> :> <<"2">>)]

\* The tasks of a server, labelled with its name.
TasksMetric ==
  [Metric(<<"l","i","s","t"," ","t","a","s","k","s">>, <<"s","r","v">>) EXCEPT
     !.Help = ColTasks :> <<"t","a","s","k","s">>,
     !.Labels = <<ColName>>]

\* The state of a server, labelled with its name, two spellings in the map.
LabelledStateMetric ==
  [Metric(<<"l","i","s","t"," ","s","t","a","t","e">>, <<"s","r","v">>) EXCEPT
     !.Help = (ColState :> <<"s","t","a","t","e">>) @@ (ColTasks :> <<"t","a","s","k","s">>),
     !.ValueMap = ColState :> ((<<"R","u","n","n","i","n","g">> :> <<"2">>) @@ (<<"r","u","n","n","i","n","g"," ">> :> <<"3">>)),
     !.Labels = <<ColName>>,
     !.IgnoreZeroResult = TRUE]

\* A histogram of response times.
HistogramMetric ==
  [Metric(<<"l","i","s","t"," ","a","v","g">>, <<"p","e","r","f">>) EXCEPT
     !.Help = ColAvg :> <<"a","v","g">>,
     !.Type = ColAvg :> <<"H","i","s","t","o","g","r","a","m">>,
     !.Buckets = ColAvg :> (ColTasks :> <<"5">>),
     !.Labels = <<ColName>>]

\* A start time, of the extended set.
TimeMetric ==
  [Metric(<<"l","i","s","t"," ","s","t","a","r","t">>, <<"s","r","v">>) EXCEPT
     !.Help = ColStart :> <<"s","t","a","r","t">>,
     !.Extended = TRUE]

\* One metric per row, named by the row.
AppendedMetric ==
  [Metric(<<"l","i","s","t"," ","p","a","r","a","m","s">>, <<"p","a","r">>) EXCEPT
     !.Help = (ColTasks :> <<"v","a","l","u","e">>) @@ (ColState :> <<"s","t","a","t","e">>),
     !.FieldToAppend = ColName]

\* A histogram without buckets: not valid.
InvalidMetric ==
  [Metric(<<"l","i","s","t"," ","a","v","g">>, <<"p","e","r","f">>) EXCEPT
     !.Help = ColAvg :> <<"a","v","g">>,
     !.Type = ColAvg :> <<"h","i","s","t","o","g","r","a","m">>]

\* The tasks of a component, labelled with its name and its alias.
PairMetric ==
  [Metric(<<"l","i","s","t"," ","c","o","m","p","s">>, <<"c","o","m","p">>) EXCEPT
     !.Help = ColTasks :> <<"t","a","s","k","s">>,
     !.Labels = <<ColName, ColAlias>>]

\* A definition without a command, and one without help: not valid.
NoCommandMetric == [StateMetric EXCEPT !.Command = <<>>]

NoHelpMetric == [TasksMetric EXCEPT !.Help = NoMap]

GenericDefinitions ==
  {StateMetric, TasksMetric, LabelledStateMetric, HistogramMetric, TimeMetric,
   AppendedMetric, InvalidMetric, NoCommandMetric, NoHelpMetric, PairMetric}

GenericCatalogs ==
  UNION {[1..n -> GenericDefinitions] : n \in 1..MaxCatalog}

Lines(lines) == [err |-> "nil", lines |-> lines]

\* What SendCommand may return for a command.
Responses ==
  {[err |-> "send", lines |-> <<>>],
   Lines(<<>>),
   Lines(<<<<"N","A","M","E"," ","S","T","A","T","E">>, <<"-","-","-","-"," ","-","-","-","-","-">>>>),
   Lines(<<<<"N","A","M","E"," ","S","T","A","T","E">>, <<"-","-","-","-"," ","-","-","-","-","-">>, <<"S","R","V","0","1"," ","R","u","n","n","i","n","g">>>>),
   Lines(<<<<"N","A","M","E"," "," "," ","S","T","A","T","E">>, <<"-","-","-","-","-"," "," ","-","-","-","-","-","-","-">>, <<"S","R","V","0","1"," "," ","R","u","n","n","i","n","g">>, <<"S","R","V","0","1">>, <<>>,
           <<"S","R","V","0","2"," "," ","S","h","u","t","d","o","w","n">>>>),
   Lines(<<<<"N","A","M","E"," "," "," ","T","A","S","K","S">>, <<"-","-","-","-","-"," "," ","-","-","-","-","-">>, <<"S","R","V","0","1"," "," ","5">>, <<"S","R","V","0","1"," "," ","7">>, <<"S","R","V","0","2"," "," ","7">>>>),
   Lines(<<<<"N","A","M","E"," "," "," ","A","V","G"," "," ","c","o","u","n","t"," "," ","T","A","S","K","S">>, <<"-","-","-","-","-"," "," ","-","-","-"," "," ","-","-","-","-","-"," "," ","-","-","-","-","-">>, <<"S","R","V","0","1"," "," ","4">>,
           <<"S","R","V","0","1"," "," ","6"," "," "," "," ","3"," "," "," "," "," "," ","1">>, <<"S","R","V","0","1"," "," ","7"," "," "," "," ","2"," "," "," "," "," "," ","1">>>>),
   Lines(<<<<"S","T","A","R","T","_","T","I","M","E"," "," "," "," "," "," "," "," "," "," "," ","N","A","M","E">>, <<"-","-","-","-","-","-","-","-","-","-","-","-","-","-","-","-","-","-","-"," "," ","-","-","-","-">>,
           <<"2","0","2","4","-","0","1","-","0","1"," ","0","0",":","0","0",":","0","0"," "," ","A">>, <<"0","0","0","0","-","0","0","-","0","0"," ","0","0",":","0","0",":","0","0"," "," ","B">>, <<"2","0","2","4","-","0","2","-","3","0"," ","0","0",":","0","0",":","0","0">>>>),
   Lines(<<<<"N","A","M","E"," "," "," ","A","L","I","A","S"," "," ","T","A","S","K","S">>, <<"-","-","-","-","-"," "," ","-","-","-","-","-"," "," ","-","-","-","-","-">>, <<"a",",","b"," "," "," "," ","c"," "," "," "," "," "," ","1">>,
           <<"a"," "," "," "," "," "," ","b",",","c"," "," "," "," ","2">>>>)}

\* The validation without the check of the help map.
validateMetricDescWithoutHelp(metric) ==
  /\ Len(metric.Command) # 0
  /\ \A columnName \in DOMAIN metric.Type :
       ToLower(metric.Type[columnName]) = <<"h","i","s","t","o","g","r","a","m">>
         => /\ DOMAIN metric.Buckets # {}
            /\ columnName \in DOMAIN metric.Buckets

\* part_001 357-388: a definition is valid with a command, a help map and
\* buckets for every histogram column.
validateMetricDesc(metric) ==
  /\ Len(metric.Command) # 0
  /\ DOMAIN metric.Help # {}
  /\ \A columnName \in DOMAIN metric.Type :
       ToLower(metric.Type[columnName]) = <<"h","i","s","t","o","g","r","a","m">>
         => /\ DOMAIN metric.Buckets # {}
            /\ columnName \in DOMAIN metric.Buckets

\* The variables the definitions loop leaves alone.
metricRest ==
  <<status, proc, orphans, stdoutOutput, stderrOutput, lastActivity,
    heartbeatTicker, isReconnecting, AutoReconnect, th, crashed, ops, faults,
    toEmit, delays, ticks, answer, sc, mf>>

\* The definition the loop is at.
metricAt == exporter.Metric[run.k]

\* The loop goes on with the next definition; err is what became of this one.
metricContinue(err) ==
  [run EXCEPT !.pc = "start", !.k = @ + 1, !.errs = Append(@, err),
              !.rows = <<>>, !.r = 1, !.startIndex = 1, !.seenMetrics = {},
              !.metricsCount = 0, !.chunkMetricsCount = 0]

\* A definition that is not valid, or extended while extended metrics are
\* disabled, is passed over.
metricSkip ==
  /\ run.pc = "start"
  /\ run.k <= Len(exporter.Metric)
  /\ \/ ~validateMetricDesc(metricAt)
     \/ metricAt.Extended /\ exporter.DisableExtendedMetrics
  /\ run' = metricContinue("skipped")
  /\ UNCHANGED exporter
  /\ UNCHANGED metricRest

\* scrapeGenericValues up to the rows: the command is sent and its response
\* parsed; an error ends the definition and is counted.
metricGetSiebelData(response) ==
  /\ run.pc = "start"
  /\ run.k <= Len(exporter.Metric)
  /\ validateMetricDesc(metricAt)
  /\ ~(metricAt.Extended /\ exporter.DisableExtendedMetrics)
  /\ LET got == getSiebelData(response, run.override)
     IN IF got.err # "nil"
        THEN /\ run' = [metricContinue(got.err) EXCEPT !.response = response]
             /\ exporter' = [exporter EXCEPT !.scrapeErrors = @ + 1]
        ELSE /\ run' = [run EXCEPT !.pc = "rows", !.response = response,
                                   !.rows = got.rows, !.r = 1, !.startIndex = 1,
                                   !.seenMetrics = {}, !.metricsCount = 0,
                                   !.chunkMetricsCount = 0]
             /\ UNCHANGED exporter
  /\ UNCHANGED metricRest

\* part_002:20 has chunks of 1000 rows; here a chunk has as many rows as
\* lets the longest response span two chunks.
chunkSize == 2

\* The last row of the chunk that starts at row startIndex.
endIndex(startIndex, totalRows) == Min(startIndex + chunkSize - 1, totalRows)

\* A loop over the chunks that hands every chunk a map of its own.
nextChunkFreshMap(r) ==
  [r EXCEPT !.startIndex = @ + chunkSize,
            !.metricsCount = @ + r.chunkMetricsCount,
            !.chunkMetricsCount = 0,
            !.seenMetrics = {}]

\* part_002 450-484: processDataChunk has returned: its count is added and
\* the loop goes on with the next chunk, to which it hands the same
\* seenMetrics map.
nextChunk(r) ==
  [r EXCEPT !.startIndex = @ + chunkSize,
            !.metricsCount = @ + r.chunkMetricsCount,
            !.chunkMetricsCount = 0]

\* processDataChunk for one row: the row's samples are sent to the channel
\* and counted; after the last row of the chunk processDataChunk returns to
\* generatePrometheusMetrics.
processDataChunk(order, keys) ==
  /\ run.pc = "rows"
  /\ run.r <= Len(run.rows)
  /\ \E made \in {convertRowToMetrics(run.rows[run.r], namespace, metricAt,
                                        run.seenMetrics, order, keys)} :
     \E taken \in {[run EXCEPT
                      !.r = @ + 1,
                      !.seenMetrics = made.seen,
                      !.chunkMetricsCount = @ + Len(made.metrics),
                      !.ch = @ \o [i \in 1..Len(made.metrics) |->
                                     [def |-> run.k, row |-> run.r, m |-> made.metrics[i]]]]} :
       run' = IF run.r = endIndex(run.startIndex, Len(run.rows))
              THEN nextChunk(taken)
              ELSE taken
  /\ UNCHANGED exporter
  /\ UNCHANGED metricRest

\* scrapeGenericValues after the last row: no sample at all is an error
\* unless the definition ignores it, and an error is counted.
metricGenerated ==
  /\ run.pc = "rows"
  /\ run.r > Len(run.rows)
  /\ IF run.metricsCount = 0 /\ ~metricAt.IgnoreZeroResult
     THEN /\ run' = metricContinue("no metrics found while parsing")
          /\ exporter' = [exporter EXCEPT !.scrapeErrors = @ + 1]
     ELSE /\ run' = metricContinue("nil")
          /\ UNCHANGED exporter
  /\ UNCHANGED metricRest

\* The loop is over.
metricsEnd ==
  /\ run.pc = "start"
  /\ run.k > Len(exporter.Metric)
  /\ run' = [run EXCEPT !.pc = "done"]
  /\ UNCHANGED exporter
  /\ UNCHANGED metricRest

InitGeneric ==
  /\ status = "Connected"
  /\ proc = "running"
  /\ orphans = 0
  /\ stdoutOutput = <<>>
  /\ stderrOutput = <<>>
  /\ lastActivity = "recent"
  /\ heartbeatTicker = "nil"
  /\ isReconnecting = FALSE
  /\ AutoReconnect = FALSE
  /\ th = Idle(OneHeartbeat)
  /\ crashed = FALSE
  /\ ops = 0
  /\ faults = 0
  /\ toEmit = [out |-> <<>>, err |-> <<>>]
  /\ delays = <<>>
  /\ ticks = 0
  /\ answer = [out |-> Response, err |-> <<>>]
  /\ \E d \in BOOLEAN : \E c \in GenericCatalogs : exporter = NewExporter(FALSE, d, c)
  /\ sc = NoScrape
  /\ \E o \in BOOLEAN : run = [NoRun EXCEPT !.pc = "start", !.override = o]
  /\ mf = NoFile

\* The orders in which the loop over metric.Help may visit the columns of
\* the definition at hand, and its value maps their keys.
HelpOrders ==
  IF run.k <= Len(exporter.Metric) THEN Orders(DOMAIN metricAt.Help) ELSE {}

ValueMapOrders ==
  IF run.k <= Len(exporter.Metric) THEN KeyOrders(metricAt) ELSE {}

NextGeneric ==
  \/ metricSkip
  \/ \E response \in Responses : metricGetSiebelData(response)
  \/ \E order \in HelpOrders : \E keys \in ValueMapOrders :
       processDataChunk(order, keys)
  \/ metricGenerated
  \/ metricsEnd

SpecGeneric == InitGeneric /\ [][NextGeneric]_vars

\* ------------------------------------------------------------------------
\* Claims about the parser and the mapper (SpecGeneric).
\* ------------------------------------------------------------------------

Last(s) == s[Len(s)]

\* A step in which the command of a definition was sent: its response is in
\* run'.response.
Fetched ==
  /\ run.pc = "start"
  /\ \/ run'.pc = "rows"
     \/ run'.pc = "start" /\ Len(run'.errs) = Len(run.errs) + 1 /\ Last(run'.errs) # "skipped"

\* C26: a response of fewer than 3 lines is rejected with the invalid-output
\* error: the definition ends without a row and without a sample, and the
\* scrape-error counter goes up by one.
C26_ShortResponseRejected ==
  [][Fetched /\ ~SendFailed(run'.response) /\ Len(run'.response.lines) < 3
       => /\ run'.pc = "start"
          /\ run'.k = run.k + 1
          /\ Last(run'.errs) = "command output is not valid"
          /\ run'.rows = <<>>
          /\ run'.ch = run.ch
          /\ exporter'.scrapeErrors = exporter.scrapeErrors + 1]_vars

\* A header and a separator without a data line were received and rejected.
C26_Witness ==
  /\ run.pc = "start"
  /\ run.response = Lines(<<<<"N","A","M","E"," ","S","T","A","T","E">>, <<"-","-","-","-"," ","-","-","-","-","-">>>>)
  /\ run.errs # <<>>
  /\ Last(run.errs) = "command output is not valid"
  /\ run.ch = <<>>
  /\ exporter.scrapeErrors = Len(run.errs)

\* A step in which a response of a header line, a separator line and at
\* least one data line was received.
FetchedTable == Fetched /\ ~SendFailed(run'.response) /\ Len(run'.response.lines) >= 3

\* The header tokens of a response.
HeaderTokens(response) ==
  {Split(trimHeadRow(response.lines[1]))[i] :
     i \in 1..Len(Split(trimHeadRow(response.lines[1])))}

\* C24: for every response of a header line, a separator line and n >= 1
\* data lines the parser yields exactly n rows, and the key set of every
\* row is exactly the set of header tokens, also for short data lines.
C24_OneRowPerDataLine ==
  [][FetchedTable
       => /\ run'.pc = "rows"
          /\ Len(run'.rows) = Len(run'.response.lines) - 2
          /\ \A i \in 1..Len(run'.rows) :
               DOMAIN run'.rows[i] = HeaderTokens(run'.response)]_vars

\* The response of the header "NAME STATE", the separator "---- -----" and
\* the data line "SRV01 Running".
ServerStateResponse == Lines(<<<<"N","A","M","E"," ","S","T","A","T","E">>, <<"-","-","-","-"," ","-","-","-","-","-">>, <<"S","R","V","0","1"," ","R","u","n","n","i","n","g">>>>)

\* The width of column j of a response: the length of its separator token
\* plus the width of the gap between the first two separator tokens.
ColumnWidth(response, j) ==
  Len(Split(trimHeadRow(response.lines[2]))[j]) + getSpacerLength(response.lines[2])

\* C25 as stated: the response above yields one row that maps NAME to
\* "SRV01" and STATE to "Running".
C25_StateGivenInFull ==
  [][FetchedTable /\ run'.response = ServerStateResponse
       => run'.rows = <<(ColName :> <<"S","R","V","0","1">>) @@ (ColState :> <<"R","u","n","n","i","n","g">>)>>]_vars

\* C25, amended: the response above yields one row that maps NAME to "SRV01"
\* and STATE to "Runni", what the widths 5 and 6 leave of the line; and in
\* every row of every response no value is longer than the width of its
\* column.
C25_StateCutToWidth ==
  [][FetchedTable
       => /\ run'.response = ServerStateResponse
             => run'.rows = <<(ColName :> <<"S","R","V","0","1">>) @@ (ColState :> <<"R","u","n","n","i">>)>>
          /\ \A i \in 1..Len(run'.rows) :
               \A j \in 1..Len(Split(trimHeadRow(run'.response.lines[1]))) :
                 LET colName == Split(trimHeadRow(run'.response.lines[1]))[j]
                 IN colName \in DOMAIN run'.rows[i]
                      => Len(run'.rows[i][colName]) <= ColumnWidth(run'.response, j)]_vars

\* The response above has been parsed into its one row.
C25_Witness ==
  /\ run.pc = "rows"
  /\ run.response = ServerStateResponse
  /\ Len(run.rows) = 1
  /\ run.rows[1][ColState] = <<"R","u","n","n","i">>

\* A step in which processDataChunk took the row run.rows[run.r].
RowTaken == run.pc = "rows" /\ run'.pc = "rows" /\ run'.r = run.r + 1

\* The samples the step sent to the channel.
Sent == SubSeq(run'.ch, Len(run.ch) + 1, Len(run'.ch))

\* The row of the server SRV01 that is running.
RunningRow == (ColName :> <<"S","R","V","0","1">>) @@ (ColState :> <<"R","u","n","n","i","n","g">>)

\* The keys of a value map whose clean name is that of the value.
MatchingKeys(metricMap, value) ==
  {key \in DOMAIN metricMap : cleanName(key) = cleanName(value)}

\* C27: for the row {NAME: "SRV01", STATE: "Running"} and a definition whose
\* help map declares STATE with the value map {"Running": "2"} and no type,
\* one gauge sample named <namespace>_<subsystem>_state with the value 2 is
\* emitted; and the value of every sample of a column with a value map that
\* has a key whose clean name is that of the raw value is the mapped value
\* of such a key.
C27_ValueMapped ==
  [][RowTaken
       => /\ metricAt = StateMetric /\ run.rows[run.r] = RunningRow /\ run.seenMetrics = {}
             => /\ Len(Sent) = 1
                /\ Sent[1].m.name = <<"s","i","e","b","e","l","_","s","r","v","_","s","t","a","t","e">>
                /\ Sent[1].m.type = "gauge"
                /\ Sent[1].m.value = 2
          /\ \A i \in 1..Len(Sent) :
               LET column == Sent[i].m.column
                   raw == Get(run.rows[run.r], column)
               IN /\ column \in DOMAIN metricAt.ValueMap
                  /\ MatchingKeys(metricAt.ValueMap[column], raw) # {}
                  => \E key \in MatchingKeys(metricAt.ValueMap[column], raw) :
                       ParseNumber(metricAt.ValueMap[column][key]) =
                         [ok |-> TRUE, v |-> Sent[i].m.value]]_vars

\* The running server's row has given the gauge of value 2.
C27_Witness ==
  /\ run.pc = "rows"
  /\ run.r = 2
  /\ metricAt = StateMetric
  /\ run.rows[1] = RunningRow
  /\ Len(run.ch) = 1
  /\ run.ch[1].m.name = <<"s","i","e","b","e","l","_","s","r","v","_","s","t","a","t","e">>
  /\ run.ch[1].m.value = 2

\* The rows of the definition at hand have all been taken.
RowsDone == run.pc = "rows" /\ run.r > Len(run.rows)

\* The dedup key of a sample.
SampleKey(m) == createMetricKey(<<>>, <<>>, m.name, m.labelValues)

\* The samples row i of the definition at hand gives when it is taken alone.
Alone(i) ==
  convertRowToMetrics(run.rows[i], namespace, metricAt, {},
                      CHOOSE order \in HelpOrders : TRUE,
                      CHOOSE keys \in ValueMapOrders : TRUE).metrics

\* The dedup keys row i of the definition at hand produces.
Produced(i) == {SampleKey(Alone(i)[j]) : j \in 1..Len(Alone(i))}

\* The rows of the definition at hand that produce the key.
Producers(key) == {i \in 1..Len(run.rows) : key \in Produced(i)}

\* The positions in the channel of the samples of the definition at hand
\* that have the given key.
SamplesOf(key) ==
  {j \in 1..Len(run.ch) : run.ch[j].def = run.k /\ SampleKey(run.ch[j].m) = key}

\* C23: when the rows of a definition have been taken, for every dedup key
\* that several of its rows produce exactly one sample has been emitted, made
\* from the first row in row order that produces the key; rows dropped as
\* repeats are not counted.
C23_FirstRowWins ==
  RowsDone
    => /\ \A i \in 1..Len(run.rows) : \A key \in Produced(i) :
            Cardinality(Producers(key)) > 1
              => /\ Cardinality(SamplesOf(key)) = 1
                 /\ \A j \in SamplesOf(key) :
                      /\ run.ch[j].row \in Producers(key)
                      /\ \A h \in Producers(key) : run.ch[j].row <= h
       /\ run.metricsCount = Cardinality({j \in 1..Len(run.ch) : run.ch[j].def = run.k})

\* The tuple that identifies a sample to the registry.
Tuple(m) == <<namespace, m.subsystem, m.cleaned, m.labelValues>>

\* C22: within one scrape, over all definitions of the catalog together, at
\* most one sample is emitted for any (namespace, subsystem, cleaned name,
\* label values) tuple.
C22_OneSamplePerTuple ==
  \A i, j \in 1..Len(run.ch) :
    Tuple(run.ch[i].m) = Tuple(run.ch[j].m) => i = j

\* ------------------------------------------------------------------------
\* Claims about the session (Spec), continued.
\* ------------------------------------------------------------------------

\* C28: a session is never duplicated: at every moment at most one child
\* process, with its two readers, is alive per ServerManager, whatever the
\* sequence of Connect, Disconnect, failed connects and reconnection retries.
C28_OneProcessAlive == LiveProcesses <= 1

\* ------------------------------------------------------------------------
\* The reload of the metrics file (reloadMetricsIfItChanged), with a file
\* that is edited while the exporter runs.
\* ------------------------------------------------------------------------

MaxChecks == 3
MaxEdits == 3

\* What the metrics file may hold: three files that decode, one that does
\* not, and no readable file.
Decodable == {"state", "tasks", "both"}
Contents == Decodable \cup {"broken", "none"}

\* toml.DecodeFile: the definitions of a file that decodes.
DecodeFile(content) ==
  CASE content = "state" -> <<StateMetric>>
    [] content = "tasks" -> <<TasksMetric>>
    [] content = "both" -> <<StateMetric, TasksMetric>>

\* sha256 of a content: a value of its own per content.
Sum(content) == <<"sha256", content>>

\* The variables the reload leaves alone.
reloadRest ==
  <<status, proc, orphans, stdoutOutput, stderrOutput, lastActivity,
    heartbeatTicker, isReconnecting, AutoReconnect, th, crashed, ops, faults,
    toEmit, delays, ticks, answer, sc, run>>

\* The file is written, removed or made unreadable by its owner.
writeFile(content) ==
  /\ mf.edits < MaxEdits
  /\ content # mf.content
  /\ mf' = [mf EXCEPT !.content = content, !.edits = @ + 1]
  /\ UNCHANGED exporter
  /\ UNCHANGED reloadRest

\* checkIfMetricsChanged, called by a scrape: a file that cannot be hashed
\* counts as unchanged; a new hash is stored and the file is to be loaded.
checkIfMetricsChanged ==
  /\ mf.pc = "idle"
  /\ mf.checks < MaxChecks
  /\ IF mf.content = "none"
     THEN mf' = [mf EXCEPT !.checks = @ + 1]
     ELSE IF mf.stored # Sum(mf.content)
     THEN mf' = [mf EXCEPT !.checks = @ + 1, !.currentHash = Sum(mf.content),
                           !.stored = Sum(mf.content), !.pc = "load"]
     ELSE mf' = [mf EXCEPT !.checks = @ + 1, !.currentHash = Sum(mf.content)]
  /\ UNCHANGED exporter
  /\ UNCHANGED reloadRest

\* loadMetrics: the catalog is emptied and the file, as it is now, decoded
\* into it; a file that does not decode is a panic.
loadMetrics ==
  /\ mf.pc = "load"
  /\ IF mf.content \in Decodable
     THEN /\ exporter' = [exporter EXCEPT !.Metric = DecodeFile(mf.content)]
          /\ mf' = [mf EXCEPT !.pc = "idle", !.loaded = mf.content]
     ELSE /\ exporter' = [exporter EXCEPT !.Metric = <<>>]
          /\ mf' = [mf EXCEPT !.pc = "idle", !.loaded = "none", !.panicked = TRUE]
  /\ UNCHANGED reloadRest

\* NewExporter has loaded the file; no hash is stored yet.
InitReload ==
  /\ status = "Connected"
  /\ proc = "running"
  /\ orphans = 0
  /\ stdoutOutput = <<>>
  /\ stderrOutput = <<>>
  /\ lastActivity = "recent"
  /\ heartbeatTicker = "nil"
  /\ isReconnecting = FALSE
  /\ AutoReconnect = FALSE
  /\ th = Idle(OneHeartbeat)
  /\ crashed = FALSE
  /\ ops = 0
  /\ faults = 0
  /\ toEmit = [out |-> <<>>, err |-> <<>>]
  /\ delays = <<>>
  /\ ticks = 0
  /\ answer = [out |-> Response, err |-> <<>>]
  /\ sc = NoScrape
  /\ run = NoRun
  /\ \E content \in Decodable :
       /\ exporter = NewExporter(FALSE, FALSE, DecodeFile(content))
       /\ mf = [NoFile EXCEPT !.content = content, !.loaded = content]

NextReload ==
  \/ \E content \in Contents : writeFile(content)
  \/ checkIfMetricsChanged
  \/ loadMetrics

SpecReload == InitReload /\ [][NextReload]_vars

\* A step of checkIfMetricsChanged, and one of loadMetrics.
Checked == mf'.checks = mf.checks + 1
Loaded == mf.pc = "load" /\ mf'.pc = "idle"

\* C29: a check reloads the catalog if and only if the hash of the file
\* differs from the stored hash; when the hash is unchanged or the file
\* cannot be hashed, the catalog and the stored hash are left as they are;
\* and after a reload the stored hash is the hash of the content that was
\* loaded.
C29_ReloadIffHashChanged ==
  [][/\ Checked
          => /\ mf'.pc = "load" <=> (mf.content # "none" /\ Sum(mf.content) # mf.stored)
             /\ mf'.pc # "load" => mf'.stored = mf.stored /\ exporter'.Metric = exporter.Metric
     /\ Loaded
          => /\ mf'.loaded # "none"
             /\ mf'.stored = Sum(mf'.loaded)
             /\ exporter'.Metric = DecodeFile(mf'.loaded)]_vars

\* ------------------------------------------------------------------------
\* Claims about one command channel (SpecExchange), continued.
\* ------------------------------------------------------------------------

\* The caller waits for the answer to its command.
Waiting == th[API].pc = "poll"

\* A step of the wait that takes the oldest line of stderr.
StderrTaken == Waiting /\ Len(stderrOutput) > 0 /\ stderrOutput' = Tail(stderrOutput)

\* A step of the wait that takes a boundary line of stdout once the first
\* prompt has been seen.
BoundaryTaken ==
  /\ Waiting
  /\ Len(stdoutOutput) > 0
  /\ stdoutOutput' = Tail(stdoutOutput)
  /\ IsBoundary(Head(stdoutOutput))
  /\ ~th[API].skip

\* C30: a line of stderr taken during a command wait is appended to the
\* result, the oldest line first, and the wait goes on; the wait ends only
\* with a boundary line of stdout or with the timeout, however many lines
\* of stderr were taken.
C30_StderrNeverEndsWait ==
  [][Waiting
       => /\ StderrTaken
               => /\ th'[API].pc = "poll"
                  /\ th'[API].out = Append(th[API].out, TrimSpace(Head(stderrOutput)))
          /\ th'[API].pc # "poll"
               => \/ th'[API].err = "timeout" /\ th'[API].out = th[API].out
                  \/ th'[API].err = "none" /\ BoundaryTaken]_vars

\* The wait goes on after two lines of stderr.
C30_Witness ==
  /\ Waiting
  /\ th[API].out = <<NoticeLine, NoticeLine>>

(***************************************************************************)
(* The heartbeat: what a tick and the end of a probe lead to.              *)
(***************************************************************************)
\* The heartbeat goroutine t is inside its probe command.
Probing(t) == th[t].pc \in {"s1", "s2", "poll", "hp"}

\* The heartbeat goroutine t has taken a tick in this step.
TickTaken(t) == th[t].pc = "hb_select" /\ th'[t].pc \notin {"hb_select", "off"}

\* The probe of heartbeat goroutine t has returned in this step.
ProbeReturned(t) == Probing(t) /\ th'[t].pc \in {"hb_enter", "tr1"}

\* C31: on a heartbeat tick with status Connected the probe command
\* "list ent" is issued only when there has been no activity for longer than
\* the threshold; with recent activity no command is sent and the goroutine
\* goes back to its select.  A tick with another status goes to tryReconnect,
\* and so does a probe that returns any error, a timeout included; a probe
\* that succeeds goes back to the select.
C31_ProbeOnlyWhenIdle ==
  [][\A t \in HB :
       /\ TickTaken(t) =>
            /\ (status = "Connected" /\ lastActivity = "recent") =>
                 (th'[t].pc = "hb_enter" /\ th'[t].op # "list ent")
            /\ (status = "Connected" /\ lastActivity = "old") =>
                 (th'[t].pc = "s1" /\ th'[t].op = "list ent")
            /\ status # "Connected" => th'[t].pc = "tr1"
       /\ Probing(t) => th'[t].pc \in {"s1", "s2", "poll", "hp", "hb_enter", "tr1"}
       /\ ProbeReturned(t) =>
            (th'[t].pc = "tr1") = (th'[t].err # "none")
       /\ exchangeTimeout(t) => (th'[t].pc = "tr1" /\ th'[t].err = "timeout")]_vars

\* The probe of a heartbeat goroutine has timed out and the goroutine is on
\* its way into tryReconnect.
C31_Witness ==
  \E t \in HB : th[t].pc = "tr1" /\ th[t].err = "timeout"

(***************************************************************************)
(* The teardown on entry to the reconnection loop.                         *)
(***************************************************************************)
\* tryReconnect of t is inside cleanupProcess, past the kill, in
\* reconnectWg.Wait().
Draining(t) == th[t].pc = "tr3"

\* C34: on entry to the reconnection loop the teardown of the old process
\* completes and the first connect attempt is made in every execution, also
\* when reader tasks never finish: the wait for the readers of cleanupProcess
\* never depends on a process that still runs, so that tryReconnect, holding
\* the single-flight flag, can always go on to start the loop.
C34_TeardownCompletes ==
  \A t \in Threads : Draining(t) => readersDone

(***************************************************************************)
(* The session whose configuration changes: the status Reconnecting, the   *)
(* heartbeat goroutines and panics.                                        *)
(***************************************************************************)
\* C35: Reconnecting is never a resting state: whenever the status is
\* Reconnecting the single-flight flag is set, that is, a tryReconnect or
\* the loop it starts is running; stopping the loop through
\* DisableAutoReconnect, UpdateConfig or Disconnect never leaves the status
\* at Reconnecting with no loop.
C35_ReconnectingHasLoop == status = "Reconnecting" => isReconnecting

\* The heartbeat goroutines that run and hold no closed stop channel: those
\* that no one has told to stop.
Heartbeats ==
  {t \in HB : th[t].pc \notin {"off", "none"} /\ th[t].capStop # "closed"}

\* C36: at most one heartbeat goroutine runs per session at any time: when
\* the heartbeat checker has been started again, the goroutines started
\* earlier have terminated or have been told to, a goroutine that itself
\* triggered the reconnection included.
C36_OneHeartbeat == Cardinality(Heartbeats) <= 1

\* C37: no reachable state of Disconnect, DisableAutoReconnect and
\* UpdateConfig is a runtime panic: no stop channel is closed twice, and the
\* heartbeat goroutine never dereferences a heartbeat ticker that Disconnect
\* has set to nil.
C37_NoPanic == ~crashed

\* ------------------------------------------------------------------------
\* Claims about the definitions loop (SpecGeneric).
\* ------------------------------------------------------------------------

\* The column of a definition is typed as a histogram.
IsHistogram(metric, column) ==
  ToLower(metric.Type[column]) = <<"h","i","s","t","o","g","r","a","m">>

\* A definition the loop must pass over: without a command, without help,
\* with a histogram column that has no buckets, or extended while extended
\* metrics are disabled.
PassedOver(metric) ==
  \/ metric.Command = <<>>
  \/ DOMAIN metric.Help = {}
  \/ \E column \in DOMAIN metric.Type :
       IsHistogram(metric, column) /\ column \notin DOMAIN metric.Buckets
  \/ metric.Extended /\ exporter.DisableExtendedMetrics

\* C32: a definition that is invalid (empty command, empty help map, a
\* histogram column without a bucket map entry) or extended while extended
\* metrics are disabled is skipped: no command is sent for it (the last
\* response stays what it was and no sample is emitted), the scrape-error
\* counter is not incremented, and the loop goes on with the next definition.
C32_InvalidDefinitionSkipped ==
  [][(run.pc = "start" /\ run.k <= Len(exporter.Metric) /\ PassedOver(metricAt))
       => /\ run'.pc = "start"
          /\ run'.k = run.k + 1
          /\ run'.response = run.response
          /\ run'.ch = run.ch
          /\ Last(run'.errs) = "skipped"
          /\ exporter'.scrapeErrors = exporter.scrapeErrors]_vars

\* A definition without help was passed over, the definition after it was
\* scraped with samples, and the loop is at its end.
C32_Witness ==
  /\ run.pc = "done"
  /\ Len(exporter.Metric) = 2
  /\ exporter.Metric[1] = NoHelpMetric
  /\ exporter.Metric[2] = TasksMetric
  /\ run.errs = <<"skipped", "nil">>
  /\ run.ch # <<>>

\* The seenMetrics map after the first n rows of the definition at hand,
\* when all rows are processed in a single pass.
RECURSIVE SeenSinglePass(_)
SeenSinglePass(n) ==
  IF n = 0 THEN {}
  ELSE LET seen == SeenSinglePass(n - 1)
       IN convertRowToMetrics(run.rows[n], namespace, metricAt, seen,
                              CHOOSE order \in HelpOrders : TRUE,
                              CHOOSE keys \in ValueMapOrders : TRUE).seen

\* The lists of samples row i can give in a single pass, one for every order
\* in which the maps of the definition are visited.
SamplesSinglePass(i) ==
  LET seen == SeenSinglePass(i - 1)
  IN {convertRowToMetrics(run.rows[i], namespace, metricAt, seen, order, keys).metrics :
        order \in HelpOrders, keys \in ValueMapOrders}

\* The samples of the definition at hand in the channel, with their rows.
EmittedHere == SelectSeq(run.ch, LAMBDA e : e.def = run.k)

\* The samples emitted for row i of the definition at hand, in their order.
EmittedFor(i) ==
  LET of == SelectSeq(EmittedHere, LAMBDA e : e.row = i)
  IN [j \in 1..Len(of) |-> of[j].m]

\* C33: processing the rows in chunks of chunkSize emits the same samples, in
\* the same order and with the same total count, as processing all rows in
\* a single pass: at every row the seenMetrics map is the one a single pass
\* has there, so that a key first seen in one chunk suppresses its repeats
\* in every later chunk; once the rows are taken the samples in the channel
\* are, row by row and in row order, those of the single pass, and the
\* counts of the chunks add up to their number.
C33_ChunksAsSinglePass ==
  (run.pc = "rows" /\ run.k <= Len(exporter.Metric))
    => /\ run.seenMetrics = SeenSinglePass(run.r - 1)
       /\ RowsDone => \A i \in 1..Len(run.rows) : EmittedFor(i) \in SamplesSinglePass(i)
       /\ \E emitted \in {EmittedHere} :
            /\ \A i, j \in 1..Len(emitted) : i < j => emitted[i].row <= emitted[j].row
            /\ \A j \in 1..Len(emitted) : emitted[j].row < run.r
            /\ run.metricsCount + run.chunkMetricsCount = Len(emitted)
            /\ RowsDone => run.metricsCount = Len(emitted)

\* Three rows have been taken in two chunks; the third row, in the second
\* chunk, repeats a key of the first chunk and gave no sample.
C33_Witness ==
  /\ RowsDone
  /\ Len(run.rows) = 3
  /\ run.startIndex = 1 + 2 * chunkSize
  /\ EmittedFor(1) # <<>>
  /\ EmittedFor(3) = <<>>
  /\ Produced(3) # {}
  /\ Produced(3) \subseteq Produced(1) \cup Produced(2)

\* ------------------------------------------------------------------------
\* Claims about the scrape (SpecScrape), continued.
\* ------------------------------------------------------------------------

\* The commands the scrape has sent so far, with their errors: the first is
\* the ping of the gateway server, the second that of the application server.
Sends == SelectSeq(sc.calls, LAMBDA c : c[1] = "SendCommand")

\* The pings of the scrape that succeeded.
GatewayPinged == sc.path = "proceed" /\ Len(Sends) >= 1 /\ Sends[1][2] = "none"
ApplicationPinged == GatewayPinged /\ Len(Sends) >= 2 /\ Sends[2][2] = "none"

\* C38: after every scrape the two availability gauges tell the pings of that
\* scrape: both are 0 when the scrape ended at the connectivity check,
\* gateway_server_up is 1 exactly when the ping of the gateway server
\* succeeded, application_server_up is 1 exactly when both pings succeeded,
\* so that application_server_up = 1 implies gateway_server_up = 1; and the
\* scrape counter goes up by exactly one with every scrape.
C38_GaugesTellPings ==
  /\ [](sc.pc = "done"
          => /\ exporter.gatewayServerUp = (IF GatewayPinged THEN 1 ELSE 0)
             /\ exporter.applicationServerUp = (IF ApplicationPinged THEN 1 ELSE 0)
             /\ sc.path = "abort" =>
                  (exporter.gatewayServerUp = 0 /\ exporter.applicationServerUp = 0)
             /\ exporter.applicationServerUp = 1 => exporter.gatewayServerUp = 1)
  /\ [][exporter'.totalScrapes =
          exporter.totalScrapes + (IF sc.pc \in {"idle", "done"} /\ sc'.pc = "check"
                                   THEN 1 ELSE 0)]_vars

\* The second scrape has ended with the gateway server pinged and the ping of
\* the application server failed.
C38_Witness ==
  /\ sc.pc = "done"
  /\ exporter.totalScrapes = 2
  /\ GatewayPinged
  /\ ~ApplicationPinged
  /\ exporter.gatewayServerUp = 1
  /\ exporter.applicationServerUp = 0

\* The samples of the definition at hand in the channel that have the name
\* and the list of label values of sample m.
SamplesLike(m) ==
  {j \in 1..Len(EmittedHere) :
     /\ EmittedHere[j].m.name = m.name
     /\ EmittedHere[j].m.labelValues = m.labelValues}

\* C39: deduplication drops a sample only when a sample with the same name
\* and the same ordered list of label values was already emitted for the
\* definition: when the rows of a definition have been taken, for every
\* sample a row gives when taken alone a sample with its name and its list of
\* label values is in the channel, whatever characters the label values
\* contain; and a key is in seenMetrics only when a sample was emitted for
\* it.
C39_OnlyRepeatsDropped ==
  RowsDone
    => /\ \A i \in 1..Len(run.rows) : \A j \in 1..Len(Alone(i)) :
            SamplesLike(Alone(i)[j]) # {}
       /\ \A key \in run.seenMetrics :
            \E j \in 1..Len(EmittedHere) : SampleKey(EmittedHere[j].m) = key

====
